---- MODULE Spec2Model ----
(***************************************************************************)
(* Caching, rate limiting and live fan-out layer of nexmedis-golang.       *)
(*                                                                         *)
(* The Redis server is modelled as one keyspace `kv` (present keys only),   *)
(* a liveness flag `redisUp`, and the process-wide handle `RedisClient`.    *)
(* Time is counted in units of 150 seconds, so that five minutes and one    *)
(* hour are both whole numbers of units.  Every handler is a small process  *)
(* whose steps are the store commands it issues, so that commands of        *)
(* concurrent handlers interleave as they do against a real server.         *)
(***************************************************************************)
EXTENDS Integers, Sequences, FiniteSets, TLC

VARIABLES
    RedisClient,    \* db.RedisClient: "nil" until InitRedis, then "client"
    redisUp,        \* does the server answer a command right now
    now,            \* wall clock, in units of 150 s
    kv,             \* the server's keyspace: key -> [data, hasExp, exp]
    dbVer,          \* number of log rows in the relational store
    rl,             \* CheckLimit activations, one per caller
    window,         \* per client: outcomes of the checks of its current hour bucket
    issued,         \* number of CheckLimit calls started so far
    rd,             \* usage handler activations, one per reader
    pf,             \* the prefetchTopClients goroutine each reader may have spawned
    inv,            \* invalidateUsageCache goroutines
    reads,          \* number of usage handler activations started so far
    ss,             \* live sessions: StreamUsageUpdates / StreamTopClients activations
    lg,             \* RecordLog activations, one per writer
    pb,             \* the publishLogUpdate goroutine of each writer
    fc,             \* the latest direct call of CacheGet, CacheSet or CacheDelete
    published       \* number of traced PUBLISH commands the server accepted on api_logs:updates

conn   == <<RedisClient, redisUp>>
rlVars == <<rl, window, issued>>
usageVars == <<rd, pf, reads, fc>>
\* everything but the rate limiter's activations
logVars == <<lg, pb>>
notRL  == <<dbVer, usageVars, inv, ss, logVars, published>>
\* everything but the usage handlers, their prefetchers and the invalidators
notCache == <<dbVer, rlVars, ss, logVars, fc, published>>
\* everything but the live sessions
notSSE == <<RedisClient, redisUp, now, kv, dbVer, rl, window, issued, rd, pf, inv, reads, logVars,
            fc, published>>

vars == <<RedisClient, redisUp, now, kv, dbVer, rl, window, issued, rd, pf, inv, reads, ss,
          lg, pb, fc, published>>

-----------------------------------------------------------------------------
(* Sizes of the model *)

Clients == {"c1", "c2"}
Callers == {"p1", "p2"}
Readers == {"r1", "r2"}
Invalidators == {"i1", "i2"}
Sessions == {"s1", "s2"}
Writers == {"w1", "w2"}

\* rl.maxRequestsPerHour, the configured hourly maximum M
MaxRequestsPerHour == 2
\* the clock stops after this many hours
MaxHours == 1

\* h.cacheTTL, the configured cache TTL (CACHE_TTL), in clock units
cacheTTL == 3
\* usage handler activations started in one behaviour
MaxReads == 2

\* messages the subscription's Go channel holds before further ones are dropped
ChanCap == 1

\* time.Hour in clock units
Hour == 24
\* 5*time.Minute in clock units: the prefetch threshold
FiveMinutes == 2
\* 5*time.Minute in clock units: the TTL of usage:stats:overall
StatsTTL == 2
\* the rate limiter specification advances the clock by half hours
HalfHour == Hour \div 2
\* CheckLimit calls started in one behaviour
MaxCalls == MaxRequestsPerHour + 1

-----------------------------------------------------------------------------
(* The keyspace *)

\* time.Now().UTC().Format("2006-01-02-15"): the text names the hour, not the instant
FormatHour(t) == ToString(t \div Hour)

\* fmt.Sprintf("rate_limit:%v:%s", clientID, hour)
KeyWithoutHour(clientID, t) == <<"rate_limit", clientID>>
getRateLimitKey(clientID, t) == <<"rate_limit", clientID, FormatHour(t)>>

Present(key) == key \in DOMAIN kv

\* a key written by SET or created by INCR; exp is meaningful when hasExp
Entry(data, hasExp, exp) == [data |-> data, hasExp |-> hasExp, exp |-> exp]

KvPut(store, key, entry) == (key :> entry) @@ store
KvDel(store, keys) == [k \in DOMAIN store \ keys |-> store[k]]

\* keys whose expiry has been reached at time t are gone
Expired(store, t) == {k \in DOMAIN store : store[k].hasExp /\ store[k].exp <= t}

\* Ping succeeds
Ping == redisUp

IsRedisAvailable == RedisClient # "nil" /\ Ping

\* GET key as Int64; redis.Nil is read as 0
CounterValue(key) == IF Present(key) THEN kv[key].data[2] ELSE 0

-----------------------------------------------------------------------------
(* Environment *)

InitRedis ==
    /\ RedisClient = "nil"
    /\ RedisClient' = "client"
    /\ UNCHANGED <<redisUp, now, kv, rlVars, notRL>>

RedisDown ==
    /\ redisUp
    /\ redisUp' = FALSE
    /\ UNCHANGED <<RedisClient, now, kv, rlVars, notRL>>

RedisBack ==
    /\ ~redisUp
    /\ redisUp' = TRUE
    /\ UNCHANGED <<RedisClient, now, kv, rlVars, notRL>>

\* the clock advances by d units; the server drops the keys that expire
Advance(d) ==
    /\ now + d <= MaxHours * Hour
    /\ now' = now + d
    /\ kv' = KvDel(kv, Expired(kv, now + d))

TickHalfHour ==
    /\ Advance(HalfHour)
    /\ UNCHANGED <<conn, rlVars, notRL>>

-----------------------------------------------------------------------------
(* Rate limiter: utils/rate_limiter.go *)

Result(allowed, remaining) == [allowed |-> allowed, remaining |-> remaining, err |-> "nil"]

NoResult == [allowed |-> FALSE, remaining |-> 0, err |-> "none"]

\* afterReset: the call is the first to be entered on its key since ResetLimit
\* deleted it, and neither another call on the key nor another reset has
\* happened since it was entered
\* op: the method that is running, "check" or "remaining"
\* afterRejection: a check of the client had been rejected in the call's bucket
\* when the call was entered
IdleCall == [pc |-> "idle", client |-> "c1", key |-> <<>>, bucket |-> "", sawDown |-> FALSE,
             result |-> NoResult, afterReset |-> FALSE, afterRejection |-> FALSE,
             op |-> "none"]

\* count >= int64(rl.maxRequestsPerHour)
LimitNeverReached(count) == FALSE
LimitReachedOffByOne(count) == count > MaxRequestsPerHour
LimitReached(count) == count >= MaxRequestsPerHour

\* remaining := max - newCount, floored at 0
RemainingBeforeIncrement(newCount) == MaxRequestsPerHour - newCount + 1
Remaining(newCount) ==
    IF MaxRequestsPerHour - newCount < 0 THEN 0 ELSE MaxRequestsPerHour - newCount

\* the return taken when GetCounter or IncrementCounter reports an error
FailClosedResult == Result(FALSE, 0)
CounterErrorResult == Result(TRUE, 0)

\* lines 38-41: remaining := 0; return false, remaining, nil
RejectedWithOneLeft == Result(FALSE, 1)
RejectedResult == Result(FALSE, 0)

\* lines 55-60: remaining := max - newCount (floored); return true, remaining, nil
RejectedAfterIncrement(newCount) == Result(FALSE, 0)
AcceptedResult(newCount) == Result(TRUE, Remaining(newCount))

\* the return taken when the probe fails
ProbeFailedResult == Result(TRUE, MaxRequestsPerHour)

InFlight(p) == rl[p].pc # "idle"

\* bookkeeping of the outcomes per client and bucket (not program state); a window
\* stops recording once a check overlapped another, met a failure, was reset, or
\* was still running when its hour ended
\* granted counts the checks of the bucket that were allowed by the counter itself
Taint(w, bad) ==
    IF w.tainted \/ bad THEN [w EXCEPT !.results = <<>>, !.rems = <<>>, !.tainted = TRUE] ELSE w

\* reset: ResetLimit deleted the bucket's key while no check of it was running,
\* and no check was entered since; rejected: a check of the bucket returned
\* allowed = false
NewWindow(bucket, overlap) ==
    [bucket |-> bucket, results |-> <<>>, rems |-> <<>>, tainted |-> overlap, granted |-> 0,
     reset |-> FALSE, rejected |-> FALSE]

WindowAtBegin(p, c) ==
    LET key == getRateLimitKey(c, now)
        overlap == \E q \in Callers \ {p} : InFlight(q) /\ rl[q].key = key
        w == window[c]
    IN  IF w.bucket = FormatHour(now)
        THEN Taint(w, overlap)
        ELSE NewWindow(FormatHour(now), overlap)

WindowAtReturn(p, res, failed) ==
    LET c == rl[p].client
        w == window[c]
    IN  IF rl[p].bucket = w.bucket
        THEN [window EXCEPT ![c] =
                 Taint([w EXCEPT !.results = Append(@, res.allowed),
                                 !.rems = Append(@, res.remaining),
                                 !.granted = IF res.allowed /\ ~failed THEN @ + 1 ELSE @,
                                 !.rejected = @ \/ ~res.allowed],
                       failed \/ FormatHour(now) # w.bucket)]
        ELSE window

Return(p, res, failed) ==
    /\ rl' = [rl EXCEPT ![p].pc = "done", ![p].result = res,
                        ![p].sawDown = rl[p].sawDown \/ failed]
    /\ window' = WindowAtReturn(p, res, rl[p].sawDown \/ failed)

\* line 28: key := rl.getRateLimitKey(clientID)
EnterCheckLimit(p, c) ==
    /\ rl[p].pc = "idle"
    /\ issued < MaxCalls
    /\ issued' = issued + 1
    /\ window' = [window EXCEPT ![c] = [WindowAtBegin(p, c) EXCEPT !.reset = FALSE]]
    /\ rl' = [q \in Callers |->
                IF q = p
                THEN [pc |-> "ping", client |-> c, key |-> getRateLimitKey(c, now),
                      bucket |-> FormatHour(now), sawDown |-> FALSE, result |-> NoResult,
                      op |-> "check",
                      afterRejection |-> /\ window[c].bucket = FormatHour(now)
                                         /\ window[c].rejected,
                      afterReset |-> /\ window[c].bucket = FormatHour(now)
                                     /\ window[c].reset
                                     /\ ~\E o \in Callers \ {p} :
                                            InFlight(o) /\ rl[o].key = getRateLimitKey(c, now)]
                ELSE IF rl[q].key = getRateLimitKey(c, now)
                     THEN [rl[q] EXCEPT !.afterReset = FALSE]
                     ELSE rl[q]]

CheckLimitBegin(p, c) ==
    /\ EnterCheckLimit(p, c)
    /\ UNCHANGED <<conn, now, kv, notRL>>

\* line 31: if db.IsRedisAvailable(ctx) ... else line 64
CheckLimitProbe(p) ==
    /\ rl[p].pc = "ping"
    /\ IF IsRedisAvailable
       THEN /\ rl' = [rl EXCEPT ![p].pc = "get"]
            /\ UNCHANGED window
       ELSE Return(p, ProbeFailedResult, TRUE)
    /\ UNCHANGED <<conn, now, kv, issued, notRL>>

\* lines 32-41: GetCounter, then the comparison with the maximum
CheckLimitGet(p) ==
    /\ rl[p].pc = "get"
    /\ IF ~redisUp
       THEN Return(p, CounterErrorResult, TRUE)
       ELSE IF LimitReached(CounterValue(rl[p].key))
            THEN Return(p, RejectedResult, FALSE)
            ELSE /\ rl' = [rl EXCEPT ![p].pc = "incr"]
                 /\ UNCHANGED window
    /\ UNCHANGED <<conn, now, kv, issued, notRL>>

\* line 50: if newCount == 1
ExpireOnSecondToo(newCount) == newCount <= 2
ExpireAlways(newCount) == TRUE
FirstRequest(newCount) == newCount = 1

\* lines 44-60: IncrementCounter (INCR creates the key at 1, without expiry)
CheckLimitIncr(p) ==
    /\ rl[p].pc = "incr"
    /\ IF ~redisUp
       THEN /\ Return(p, CounterErrorResult, TRUE)
            /\ UNCHANGED kv
       ELSE LET key == rl[p].key
                newCount == CounterValue(key) + 1
                entry == IF Present(key)
                         THEN [kv[key] EXCEPT !.data = <<"int", newCount>>]
                         ELSE Entry(<<"int", newCount>>, FALSE, 0)
            IN  /\ kv' = KvPut(kv, key, entry)
                /\ IF FirstRequest(newCount)
                   THEN /\ rl' = [rl EXCEPT ![p].pc = "expire"]
                        /\ UNCHANGED window
                   ELSE /\ rl' = [rl EXCEPT ![p].pc = "done",
                                            ![p].result = AcceptedResult(newCount)]
                        /\ window' = WindowAtReturn(p, AcceptedResult(newCount),
                                                    rl[p].sawDown)
    /\ UNCHANGED <<conn, now, issued, notRL>>

\* lines 51-52: ttl := time.Hour; Expire(ctx, key, ttl) counts from the call
EndOfBucket(t) == (t \div Hour + 1) * Hour
ExpireAfterHalfHour(t) == t + HalfHour
ExpireAt(t) == t + Hour

\* lines 50-53: Expire(key, time.Hour), its error discarded; then line 55-60
CheckLimitExpire(p) ==
    /\ rl[p].pc = "expire"
    /\ LET key == rl[p].key
       IN  IF redisUp /\ Present(key)
           THEN kv' = KvPut(kv, key, [kv[key] EXCEPT !.hasExp = TRUE, !.exp = ExpireAt(now)])
           ELSE UNCHANGED kv
    /\ Return(p, AcceptedResult(1), FALSE)
    /\ UNCHANGED <<conn, now, issued, notRL>>

\* line 90: key := rl.getRateLimitKey(clientID), the one key handed to CacheDelete
ResetEveryClient(c) == {getRateLimitKey(d, now) : d \in Clients}
ResetTargets(c) == {getRateLimitKey(c, now)}

\* lines 89-92: ResetLimit deletes the current bucket's key through CacheDelete
ResetLimit(c) ==
    /\ RedisClient # "nil"
    /\ redisUp
    /\ Present(getRateLimitKey(c, now))
    /\ kv' = KvDel(kv, ResetTargets(c))
    /\ window' = [window EXCEPT ![c] =
                      IF @.bucket = FormatHour(now)
                      THEN [Taint(@, TRUE) EXCEPT
                               !.granted = 0, !.rejected = FALSE,
                               !.reset = ~\E q \in Callers :
                                             InFlight(q) /\ rl[q].key = getRateLimitKey(c, now)]
                      ELSE @]
    /\ rl' = [q \in Callers |->
                IF rl[q].key = getRateLimitKey(c, now) THEN [rl[q] EXCEPT !.afterReset = FALSE]
                ELSE rl[q]]
    /\ UNCHANGED <<conn, now, issued, notRL>>

\* lines 71 and 76: the return of GetRemainingRequests when the probe or the
\* read fails (the value stands in the remaining field, allowed is not used)
RemainingZero == Result(TRUE, 0)
RemainingUnavailable == Result(TRUE, MaxRequestsPerHour)

\* line 68: key := rl.getRateLimitKey(clientID)
RemBegin(p, c) ==
    /\ rl[p].pc = "idle"
    /\ issued < MaxCalls
    /\ issued' = issued + 1
    /\ rl' = [rl EXCEPT ![p] = [IdleCall EXCEPT !.pc = "rping", !.op = "remaining",
                                                !.client = c,
                                                !.key = getRateLimitKey(c, now),
                                                !.bucket = FormatHour(now)]]
    /\ UNCHANGED <<conn, now, kv, window, notRL>>

\* lines 70-72: if !db.IsRedisAvailable(ctx) { return max }
RemProbe(p) ==
    /\ rl[p].pc = "rping"
    /\ rl' = [rl EXCEPT ![p] =
                IF IsRedisAvailable THEN [rl[p] EXCEPT !.pc = "rget"]
                ELSE [rl[p] EXCEPT !.pc = "done", !.sawDown = TRUE,
                                   !.result = RemainingUnavailable]]
    /\ UNCHANGED <<conn, now, kv, window, issued, notRL>>

\* lines 74-85: GetCounter, then max - count floored at 0
RemGet(p) ==
    /\ rl[p].pc = "rget"
    /\ rl' = [rl EXCEPT ![p] =
                IF redisUp
                THEN [rl[p] EXCEPT !.pc = "done",
                                   !.result = Result(TRUE, Remaining(CounterValue(rl[p].key)))]
                ELSE [rl[p] EXCEPT !.pc = "done", !.sawDown = TRUE,
                                   !.result = RemainingUnavailable]]
    /\ UNCHANGED <<conn, now, kv, window, issued, notRL>>

\* the process dies while calls are running: they are lost with the client, and
\* the process that replaces it starts over with InitRedis
Crash ==
    /\ \E p \in Callers : InFlight(p) /\ rl[p].pc # "done"
    /\ rl' = [p \in Callers |-> IdleCall]
    /\ RedisClient' = "nil"
    /\ window' = [c \in Clients |->
                     IF \E p \in Callers : InFlight(p) /\ rl[p].client = c
                     THEN Taint(window[c], TRUE) ELSE window[c]]
    /\ UNCHANGED <<redisUp, now, kv, issued, notRL>>

\* the caller has taken the result
CheckLimitEnd(p) ==
    /\ rl[p].pc = "done"
    /\ rl' = [rl EXCEPT ![p] = IdleCall]
    /\ UNCHANGED <<conn, now, kv, window, issued, notRL>>

\* the store commands of a CheckLimit that has been entered
CheckLimitSteps(p) ==
    \/ CheckLimitProbe(p)
    \/ CheckLimitGet(p)
    \/ CheckLimitIncr(p)
    \/ CheckLimitExpire(p)

CheckLimit(p) ==
    \/ \E c \in Clients : CheckLimitBegin(p, c)
    \/ CheckLimitEnd(p)
    \/ CheckLimitSteps(p)

GetRemainingRequests(p) ==
    \/ \E c \in Clients : RemBegin(p, c)
    \/ RemProbe(p)
    \/ RemGet(p)

-----------------------------------------------------------------------------
(* Cache keys and the JSON codec: db/redis.go, handler/usage_handler.go *)

DailyKey       == <<"usage", "daily", "7days">>
\* a key under the daily prefix that another deployment sharing the server wrote
Daily30Key     == <<"usage", "daily", "30days">>
TopKey         == <<"usage", "top", "24h">>
StatsKey       == <<"usage", "stats", "overall">>
ClientKey(id)  == <<"usage", "client", id, "7days">>

DailyPattern   == <<"usage", "daily", "*">>

Kinds == {"daily", "top", "client", "stats"}

\* cacheKey of each handler
KeyOf(kind, id) ==
    CASE kind = "daily"  -> DailyKey
      [] kind = "top"    -> TopKey
      [] kind = "client" -> ClientKey(id)
      [] kind = "stats"  -> StatsKey

\* the TTL each handler passes to CacheSet
OneTTLForAll(kind) == cacheTTL
TTLOf(kind) == IF kind = "stats" THEN StatsTTL ELSE cacheTTL

\* the Go type each handler encodes and decodes: a slice or a map
ShapeOf(kind) == IF kind = "stats" THEN "object" ELSE "array"

UsageKeys == {DailyKey, Daily30Key, TopKey, StatsKey} \cup {ClientKey(c) : c \in Clients}
KeyUniverse ==
    UsageKeys \cup {getRateLimitKey(c, h * Hour) : c \in Clients, h \in 0..MaxHours}

\* json.Marshal of a slice or a map
Marshal(shape, v) == <<"json", shape, v>>

\* aggregates are naturals; Unencodable stands for a value json.Marshal
\* rejects (a channel, a function, a NaN)
Unencodable == 0 - 1
EncodesAnything(v) == TRUE
Encodable(v) == v >= 0

\* json.Unmarshal succeeds on JSON text of the shape of the destination
Decodable(data, shape) == Len(data) = 3 /\ data[1] = "json" /\ data[2] = shape

\* Redis glob matching, on keys split at ':'; '*' matches any run of characters
RECURSIVE GlobMatch(_, _)
GlobMatchAnyUsage(pattern, key) == key # <<>> /\ key[1] = pattern[1]
GlobMatch(pattern, key) ==
    IF pattern = <<>> THEN key = <<>>
    ELSE IF Head(pattern) = "*"
         THEN \E n \in 0..Len(key) : GlobMatch(Tail(pattern), SubSeq(key, n + 1, Len(key)))
         ELSE /\ key # <<>>
              /\ Head(key) = Head(pattern)
              /\ GlobMatch(Tail(pattern), Tail(key))

\* the slots a SCAN with MATCH pattern can report
ScanSlots(pattern) == {k \in KeyUniverse : GlobMatch(pattern, k)}

\* CacheGet returns nil: client set, GET answered, value decoded into dest
CacheGetOk(key, shape) ==
    /\ RedisClient # "nil"
    /\ redisUp
    /\ Present(key)
    /\ Decodable(kv[key].data, shape)

\* the keyspace after CacheSet(ctx, key, value, ttl), whose error callers discard
CacheSetIfAbsent(key, shape, v, ttl) ==
    IF RedisClient # "nil" /\ Encodable(v) /\ redisUp /\ ~Present(key)
    THEN KvPut(kv, key, Entry(Marshal(shape, v), TRUE, now + ttl))
    ELSE kv
CacheSet(key, shape, v, ttl) ==
    IF RedisClient # "nil" /\ Encodable(v) /\ redisUp
    THEN KvPut(kv, key, Entry(Marshal(shape, v), TRUE, now + ttl))
    ELSE kv

\* the error every cache operation returns before or instead of its own work:
\* the nil-client guard, or the command failing because the server is away
NoStoreErr == "nil"
StoreErr ==
    IF RedisClient = "nil" THEN "not initialized"
    ELSE IF ~redisUp THEN "unavailable"
    ELSE "nil"

\* the error CacheSet returns: the encoder's error comes before the SET command
CacheSetErr(v) ==
    IF RedisClient = "nil" THEN "not initialized"
    ELSE IF ~Encodable(v) THEN "marshal"
    ELSE IF ~redisUp THEN "unavailable"
    ELSE "nil"

\* the error CacheGet returns: redis.Nil for a missing key, the decoder's error
\* for a value that does not fit dest
CacheGetErr(key, shape) ==
    IF StoreErr # "nil" THEN StoreErr
    ELSE IF ~Present(key) THEN "redis.Nil"
    ELSE IF ~Decodable(kv[key].data, shape) THEN "unmarshal"
    ELSE "nil"

\* the keyspace after CacheDelete(ctx, key)
DeleteNothing(key) == kv
CacheDelete(key) == IF RedisClient # "nil" /\ redisUp THEN KvDel(kv, {key}) ELSE kv

\* a direct call and what it returned; down: the store was unavailable, changed:
\* the keyspace differs after the call
\* the keys whose writes are recorded: one read as a slice, one read as a map
Tracked == {TopKey, StatsKey}

\* hist: per recorded key, the latest CacheSet or CacheDelete that returned nil:
\* which of the two, the value written and the time its ttl ends
NoCall == [op |-> "none", key |-> <<>>, err |-> "nil", val |-> 0, down |-> FALSE,
           changed |-> FALSE,
           hist |-> [k \in Tracked |-> [op |-> "none", val |-> 0, until |-> 0]]]

Called(op, key, err, val, store, ttl) ==
    [op |-> op, key |-> key, err |-> err, val |-> val, down |-> ~IsRedisAvailable,
     changed |-> store # kv,
     hist |-> IF op \in {"set", "del"} /\ err = "nil" /\ key \in Tracked
              THEN [fc.hist EXCEPT ![key] = [op |-> op, val |-> val, until |-> now + ttl]]
              ELSE fc.hist]

\* what CacheGet leaves in dest
CacheGetValue(key, shape) == IF CacheGetOk(key, shape) THEN kv[key].data[3] ELSE 0

\* CacheGet(ctx, key, &dest)
CacheGetCall(key, shape) ==
    /\ fc' = Called("get", key, CacheGetErr(key, shape), CacheGetValue(key, shape), kv, 0)
    /\ UNCHANGED <<conn, now, kv, rd, pf, reads, inv, dbVer, rlVars, ss, logVars, published>>

\* CacheSet(ctx, key, value, ttl)
CacheSetCall(key, shape, v, ttl) ==
    /\ kv' = CacheSet(key, shape, v, ttl)
    /\ fc' = Called("set", key, CacheSetErr(v), v, CacheSet(key, shape, v, ttl), ttl)
    /\ UNCHANGED <<conn, now, rd, pf, reads, inv, dbVer, rlVars, ss, logVars, published>>

\* CacheDelete(ctx, key)
CacheDeleteCall(key) ==
    /\ kv' = CacheDelete(key)
    /\ fc' = Called("del", key, StoreErr, 0, CacheDelete(key), 0)
    /\ UNCHANGED <<conn, now, rd, pf, reads, inv, dbVer, rlVars, ss, logVars, published>>

\* TTL key: -2 for a missing key, -1 for a key without expiry
TTL(key) ==
    IF ~Present(key) THEN 0 - 2
    ELSE IF ~kv[key].hasExp THEN 0 - 1
    ELSE kv[key].exp - now

\* ttl > 0 && ttl < 5*time.Minute
NearExpiry(ttl) == ttl > 0 /\ ttl < FiveMinutes

-----------------------------------------------------------------------------
(* invalidateUsageCache and CacheInvalidatePattern: handler/log_handler.go, db/redis.go *)

IdleInv == [pc |-> "idle", seen |-> {}, keys |-> {}, err |-> "none",
            sawDown |-> FALSE, disturbed |-> FALSE, overlapped |-> FALSE]

Scanning(i) == inv[i].pc \in {"scan", "del"}

\* bookkeeping: a SET of key happened while an invalidation was past its probe
Disturb(key) ==
    [i \in Invalidators |->
        IF inv[i].pc \in {"scan", "del", "top", "done"} /\ GlobMatch(DailyPattern, key)
        THEN [inv[i] EXCEPT !.disturbed = TRUE]
        ELSE inv[i]]

\* go h.invalidateUsageCache(ctx, client.ID); each goroutine runs once
InvBegin(i) ==
    /\ inv[i].pc = "idle"
    /\ inv' = [inv EXCEPT ![i] = [IdleInv EXCEPT !.pc = "probe"]]
    /\ UNCHANGED <<conn, now, kv, usageVars, notCache>>

\* line 100: if !db.IsRedisAvailable(bgCtx) { return }
InvProbe(i) ==
    /\ inv[i].pc = "probe"
    /\ IF IsRedisAvailable
       THEN inv' = [j \in Invalidators |->
                      IF j = i
                      THEN [inv[i] EXCEPT !.pc = "scan",
                               !.overlapped = \E o \in Invalidators \ {i} : Scanning(o)]
                      ELSE IF Scanning(j) THEN [inv[j] EXCEPT !.overlapped = TRUE]
                           ELSE inv[j]]
       ELSE inv' = [inv EXCEPT ![i].pc = "done", ![i].sawDown = TRUE]
    /\ UNCHANGED <<conn, now, kv, usageVars, notCache>>

\* redis.go 102-110: one SCAN command of the iterator; the iteration ends when
\* every slot has been visited
AfterScan(keys) == IF keys # {} THEN "del" ELSE "top"

InvScan(i) ==
    /\ inv[i].pc = "scan"
    /\ IF ~redisUp
       THEN inv' = [inv EXCEPT ![i].pc = "top", ![i].err = "err", ![i].sawDown = TRUE]
       ELSE \E k \in ScanSlots(DailyPattern) \ inv[i].seen :
              LET seen == inv[i].seen \cup {k}
                  keys == inv[i].keys \cup (IF Present(k) THEN {k} ELSE {})
              IN  inv' = [inv EXCEPT ![i].seen = seen, ![i].keys = keys,
                              ![i].pc = IF seen = ScanSlots(DailyPattern)
                                        THEN AfterScan(keys) ELSE "scan",
                              ![i].err = IF seen = ScanSlots(DailyPattern) /\ keys = {}
                                         THEN "nil" ELSE "none"]
    /\ UNCHANGED <<conn, now, kv, usageVars, notCache>>

\* redis.go 112-114: RedisClient.Del(ctx, keys...); a key already gone is not an error
DelRefused(keys) == FALSE
DelMissingFails(keys) == redisUp /\ keys \subseteq DOMAIN kv
DelSucceeds(keys) == redisUp

InvDel(i) ==
    /\ inv[i].pc = "del"
    /\ IF DelSucceeds(inv[i].keys)
       THEN /\ kv' = KvDel(kv, inv[i].keys)
            /\ inv' = [inv EXCEPT ![i].pc = "top", ![i].err = "nil"]
       ELSE /\ UNCHANGED kv
            /\ inv' = [inv EXCEPT ![i].pc = "top", ![i].err = "err",
                                  ![i].sawDown = ~redisUp]
    /\ UNCHANGED <<conn, now, usageVars, notCache>>

\* log_handler.go 109-113: CacheDelete(bgCtx, "usage:top:24h"), its error only logged
TopAndStats == {TopKey, StatsKey}
TopTargets == {TopKey}

InvTop(i) ==
    /\ inv[i].pc = "top"
    /\ kv' = IF redisUp THEN KvDel(kv, TopTargets) ELSE kv
    /\ inv' = [inv EXCEPT ![i].pc = "done"]
    /\ UNCHANGED <<conn, now, usageVars, notCache>>

\* the steps of the goroutine once started
InvSteps(i) ==
    \/ InvProbe(i)
    \/ InvScan(i)
    \/ InvDel(i)
    \/ InvTop(i)

invalidateUsageCache(i) ==
    \/ InvBegin(i)
    \/ InvSteps(i)

-----------------------------------------------------------------------------
(* Usage handlers: handler/usage_handler.go *)

NoResp == [status |-> 0, source |-> "none", val |-> 0]
NoWrite == [done |-> FALSE, val |-> 0, ttl |-> 0]

\* saw: what CacheGet met ("hit", "absent", "undecodable", "error"); cres: how
\* the aggregation ended; computes, sawDown, wrote: bookkeeping of the activation;
\* born: the log rows stored when the handler was entered
IdleRead == [pc |-> "idle", kind |-> "daily", key |-> <<>>, val |-> 0, computes |-> 0,
             sawDown |-> FALSE, saw |-> "none", cres |-> "none", resp |-> NoResp,
             wrote |-> NoWrite, born |-> 0]

\* cres: how the goroutine's own aggregation ended ("none", "ok", "err")
PfOff == [pc |-> "off", ctxLive |-> FALSE, val |-> 0, wrote |-> FALSE, cres |-> "none"]

\* utils.OKResponse / InternalServerErrorResponse / NotFoundResponse
Respond(r, status, source, v) ==
    [rd[r] EXCEPT !.pc = "done", !.resp = [status |-> status, source |-> source, val |-> v]]

\* the handler is entered; GetClientUsage first looks the client up (lines 116-119)
ReadBegin(r, kind, id, found) ==
    /\ rd[r].pc = "idle"
    /\ pf[r].pc = "off"
    /\ reads < MaxReads
    /\ reads' = reads + 1
    /\ kind = "client" \/ (found /\ id = "c1")
    /\ rd' = [rd EXCEPT ![r] =
                IF kind = "client" /\ ~found
                THEN [IdleRead EXCEPT !.pc = "done", !.kind = kind,
                         !.resp = [status |-> 404, source |-> "none", val |-> 0]]
                ELSE [IdleRead EXCEPT !.pc = "probe", !.kind = kind, !.key = KeyOf(kind, id),
                                      !.born = dbVer]]
    /\ UNCHANGED <<conn, now, kv, pf, inv, notCache>>

\* "if db.IsRedisAvailable(ctx)" before the cache read; on a miss GetTopClients
\* starts prefetchTopClients with the request's context (line 71)
SpawnPrefetch(r) ==
    IF rd[r].kind = "top" THEN [pf EXCEPT ![r] = [PfOff EXCEPT !.pc = "probe", !.ctxLive = TRUE]]
    ELSE pf

\* the probe failed: the handler goes on to the relational store
FailWhenStoreDown(r) == [Respond(r, 503, "none", 0) EXCEPT !.sawDown = TRUE]
SkipCache(r) == [rd[r] EXCEPT !.pc = "compute", !.sawDown = TRUE]

ReadProbe(r) ==
    /\ rd[r].pc = "probe"
    /\ IF IsRedisAvailable
       THEN /\ rd' = [rd EXCEPT ![r].pc = "get"]
            /\ UNCHANGED pf
       ELSE /\ rd' = [rd EXCEPT ![r] = SkipCache(r)]
            /\ pf' = SpawnPrefetch(r)
    /\ UNCHANGED <<conn, now, kv, inv, reads, notCache>>

\* db.CacheGet(ctx, cacheKey, &cachedData): a nil error answers from the cache
ReadGet(r) ==
    /\ rd[r].pc = "get"
    /\ IF CacheGetOk(rd[r].key, ShapeOf(rd[r].kind))
       THEN /\ rd' = [rd EXCEPT ![r] =
                        [Respond(r, 200, "cache", kv[rd[r].key].data[3]) EXCEPT !.saw = "hit"]]
            /\ UNCHANGED pf
       ELSE /\ rd' = [rd EXCEPT ![r].pc = "compute", ![r].sawDown = @ \/ ~redisUp,
                                ![r].saw = IF ~redisUp THEN "error"
                                           ELSE IF Present(rd[r].key) THEN "undecodable"
                                           ELSE "absent"]
            /\ pf' = SpawnPrefetch(r)
    /\ UNCHANGED <<conn, now, kv, inv, reads, notCache>>

\* the aggregation queries of the relational store; GetUsageStats runs three of
\* them and fails when any fails
ReadCompute(r, ok) ==
    /\ rd[r].pc = "compute"
    /\ rd' = [rd EXCEPT ![r] =
                IF ok THEN [rd[r] EXCEPT !.pc = "probe2", !.val = dbVer, !.computes = @ + 1,
                                         !.cres = "ok"]
                ELSE [Respond(r, 500, "none", 0) EXCEPT !.computes = @ + 1, !.cres = "err"]]
    /\ UNCHANGED <<conn, now, kv, pf, inv, reads, notCache>>

\* "if db.IsRedisAvailable(ctx)" before the write-through
ReadProbe2(r) ==
    /\ rd[r].pc = "probe2"
    /\ rd' = [rd EXCEPT ![r] =
                IF IsRedisAvailable THEN [rd[r] EXCEPT !.pc = "set"]
                ELSE [Respond(r, 200, "db", rd[r].val) EXCEPT !.sawDown = TRUE]]
    /\ UNCHANGED <<conn, now, kv, pf, inv, reads, notCache>>

\* _ = db.CacheSet(ctx, cacheKey, value, ttl), then the OK response
ReadSet(r) ==
    /\ rd[r].pc = "set"
    /\ kv' = CacheSet(rd[r].key, ShapeOf(rd[r].kind), rd[r].val, TTLOf(rd[r].kind))
    /\ rd' = [rd EXCEPT ![r] =
                [Respond(r, 200, "db", rd[r].val) EXCEPT
                    !.sawDown = @ \/ ~redisUp,
                    !.wrote = IF redisUp
                              THEN [done |-> TRUE, val |-> rd[r].val, ttl |-> TTLOf(rd[r].kind)]
                              ELSE NoWrite]]
    /\ inv' = IF redisUp THEN Disturb(rd[r].key) ELSE inv
    /\ UNCHANGED <<conn, now, pf, reads, notCache>>

\* the handler returns; net/http then cancels the request's context
ReadEnd(r) ==
    /\ rd[r].pc = "done"
    /\ rd' = [rd EXCEPT ![r] = IdleRead]
    /\ pf' = [pf EXCEPT ![r].ctxLive = FALSE]
    /\ UNCHANGED <<conn, now, kv, inv, reads, notCache>>

\* the steps of a handler once entered
ReadSteps(r) ==
    \/ ReadProbe(r)
    \/ ReadGet(r)
    \/ \E ok \in BOOLEAN : ReadCompute(r, ok)
    \/ ReadProbe2(r)
    \/ ReadSet(r)
    \/ ReadEnd(r)

UsageRead(r) ==
    \/ \E kind \in Kinds, id \in Clients, found \in BOOLEAN : ReadBegin(r, kind, id, found)
    \/ ReadSteps(r)

\* GetDailyUsage alone
GetDailyUsage(r) ==
    \/ ReadBegin(r, "daily", "c1", TRUE)
    \/ ReadSteps(r)

\* prefetchTopClients, lines 88-106; a command sent with a cancelled context fails
PfProbe(r) ==
    /\ pf[r].pc = "probe"
    /\ pf' = [pf EXCEPT ![r] = IF pf[r].ctxLive /\ IsRedisAvailable
                               THEN [pf[r] EXCEPT !.pc = "ttl"] ELSE PfOff]
    /\ UNCHANGED <<conn, now, kv, rd, inv, reads, notCache>>

PfTTL(r) ==
    /\ pf[r].pc = "ttl"
    /\ pf' = [pf EXCEPT ![r] =
                IF pf[r].ctxLive /\ redisUp /\ NearExpiry(TTL(TopKey))
                THEN [pf[r] EXCEPT !.pc = "compute"] ELSE PfOff]
    /\ UNCHANGED <<conn, now, kv, rd, inv, reads, notCache>>

\* line 102: if err == nil
WriteAnyway(ok) == TRUE
WritesBack(ok) == ok

\* lines 101-104: GetTopClients of the relational store; the cache is written
\* only when it succeeded
PfCompute(r, ok) ==
    /\ pf[r].pc = "compute"
    /\ pf' = [pf EXCEPT ![r] =
                IF WritesBack(ok)
                THEN [pf[r] EXCEPT !.pc = "set", !.val = IF ok THEN dbVer ELSE 0,
                                   !.cres = IF ok THEN "ok" ELSE "err"]
                ELSE [PfOff EXCEPT !.cres = "err"]]
    /\ UNCHANGED <<conn, now, kv, rd, inv, reads, notCache>>

PfSet(r) ==
    /\ pf[r].pc = "set"
    /\ kv' = IF pf[r].ctxLive THEN CacheSet(TopKey, ShapeOf("top"), pf[r].val, cacheTTL)
             ELSE kv
    /\ pf' = [pf EXCEPT ![r] = PfOff]
    /\ UNCHANGED <<conn, now, rd, inv, reads, notCache>>

prefetchTopClients(r) ==
    \/ PfProbe(r)
    \/ PfTTL(r)
    \/ \E ok \in BOOLEAN : PfCompute(r, ok)
    \/ PfSet(r)

-----------------------------------------------------------------------------
(* Live sessions: the SSE handler (StreamUsageUpdates, StreamTopClients) *)

\* first: event name of the first frame written; last: event name of the frame
\* the latest step of the handler wrote, "nothing" when it wrote none;
\* q: pubsub.Channel(); hb, poll: a tick waiting in heartbeat.C / ticker.C;
\* cancelled: ctx.Done() is closed; lateFrame, lateCycle: bookkeeping of what the
\* select loop did after cancellation; subAt: the traced publishes the server had
\* accepted when the session subscribed; frames: the traced messages written as
\* "update" frames, in order
IdleSession == [pc |-> "idle", kind |-> "usage", status |-> 0, sub |-> FALSE,
                first |-> "none", last |-> "none", q |-> <<>>, hb |-> FALSE,
                poll |-> FALSE, cancelled |-> FALSE, err |-> "none",
                lateFrame |-> FALSE, lateCycle |-> FALSE, subAt |-> 0, frames |-> <<>>]

Payloads == {"json", "text"}

\* redis.Message: its Payload, and for a traced message its rank among the
\* traced publishes (0 for a message that is not traced)
Message(body, id) == [body |-> body, id |-> id]

\* the handler returns err; the deferred pubsub.Close() and ticker Stop() run
ClosedStillSubscribed(rec, err) ==
    [rec EXCEPT !.pc = "closed", !.err = err, !.hb = FALSE, !.poll = FALSE]
Closed(rec, err) ==
    [rec EXCEPT !.pc = "closed", !.err = err, !.sub = FALSE, !.q = <<>>,
                !.hb = FALSE, !.poll = FALSE]

\* sendSSEMessage wrote "event: <event>" and its data
Written(rec, event) ==
    [rec EXCEPT !.first = IF @ = "none" THEN event ELSE @, !.last = event]

\* sendSSEMessage inside the select loop: a failed write ends the handler
Send(rec, event, wok) ==
    IF wok THEN [Written(rec, event) EXCEPT !.lateFrame = @ \/ rec.cancelled]
    ELSE Closed(rec, "err")

\* an iteration of the select loop that sends nothing
ForwardUnparsed(rec) == Written(rec, "update")
Nothing(rec) == [rec EXCEPT !.last = "nothing"]

\* an iteration of the select loop that did not take the ctx.Done() case
Cycle(rec) == [rec EXCEPT !.lateCycle = @ \/ rec.cancelled]

\* line 69: if !db.IsRedisAvailable(ctx) { return 503 }
SubscribeAnyway == TRUE
StoreReadyForSession == IsRedisAvailable

\* lines 69-84: 503 when the store is unavailable, else Subscribe
UsageOpen(s) ==
    /\ ss[s].pc = "idle"
    /\ ss' = [ss EXCEPT ![s] =
                IF StoreReadyForSession
                THEN [IdleSession EXCEPT !.pc = "open", !.kind = "usage", !.sub = TRUE,
                                         !.subAt = published]
                ELSE [Closed(IdleSession, "nil") EXCEPT !.status = 503]]
    /\ UNCHANGED notSSE

\* lines 153-163: StreamTopClients neither probes nor subscribes
TopOpen(s) ==
    /\ ss[s].pc = "idle"
    /\ ss' = [ss EXCEPT ![s] = [IdleSession EXCEPT !.pc = "open", !.kind = "top"]]
    /\ UNCHANGED notSSE

\* lines 88-97 and 166-174: the "connected" message; the tickers start after it
SendConnected(s, wok) ==
    /\ ss[s].pc = "open"
    /\ ss' = [ss EXCEPT ![s] =
                IF wok THEN [Written(ss[s], "connected") EXCEPT !.pc = "streaming",
                                                                 !.status = 200]
                ELSE Closed(ss[s], "err")]
    /\ UNCHANGED notSSE

\* the handler is inside its for/select loop
InLoopEarly(s) == ss[s].pc \in {"open", "streaming"}
InLoop(s) == ss[s].pc = "streaming"

\* case <-ctx.Done(): return nil
SelectDone(s) ==
    /\ InLoop(s)
    /\ ss[s].cancelled
    /\ ss' = [ss EXCEPT ![s] = Closed(ss[s], "nil")]
    /\ UNCHANGED notSSE

\* msg := <-msgChan takes the message out of the channel
Redeliver(q) == q
Dequeue(q) == Tail(q)

\* lines 122-127: the "update" frame of msg
DropUpdate(rec, msg, wok) == Nothing(rec)
Forward(rec, msg, wok) ==
    IF wok /\ msg.id # 0 THEN [Send(rec, "update", wok) EXCEPT !.frames = Append(@, msg.id)]
    ELSE Send(rec, "update", wok)

\* case msg := <-msgChan: a payload that does not parse is logged and skipped
SelectMsg(s, wok) ==
    /\ InLoop(s)
    /\ ss[s].q # <<>>
    /\ LET rec == Cycle([ss[s] EXCEPT !.q = Dequeue(@)])
           msg == Head(ss[s].q)
       IN  ss' = [ss EXCEPT ![s] =
                    IF msg.body = "json" THEN Forward(rec, msg, wok)
                    ELSE Nothing(rec)]
    /\ UNCHANGED notSSE

\* the heartbeat case can be chosen: a tick waits in heartbeat.C
HeartbeatAfterMessages(s) == ss[s].hb /\ ss[s].q = <<>>
HeartbeatReady(s) == ss[s].hb

\* case <-heartbeat.C
SelectHeartbeat(s, wok) ==
    /\ InLoop(s)
    /\ HeartbeatReady(s)
    /\ ss' = [ss EXCEPT ![s] = Send(Cycle([ss[s] EXCEPT !.hb = FALSE]), "heartbeat", wok)]
    /\ UNCHANGED notSSE

\* case <-ticker.C (lines 191-216): nothing is sent when the probe fails; a
\* probe with a cancelled context fails
SelectPoll(s, wok) ==
    /\ InLoop(s)
    /\ ss[s].poll
    /\ LET rec == Cycle([ss[s] EXCEPT !.poll = FALSE])
       IN  ss' = [ss EXCEPT ![s] =
                    IF IsRedisAvailable /\ ~ss[s].cancelled
                    THEN Send(rec, IF CacheGetOk(TopKey, "array") THEN "top_clients"
                                   ELSE "refreshing", wok)
                    ELSE Nothing(rec)]
    /\ UNCHANGED notSSE

StreamUsageUpdates(s) ==
    \/ UsageOpen(s)
    \/ /\ ss[s].kind = "usage"
       /\ \/ \E wok \in BOOLEAN : SendConnected(s, wok)
          \/ SelectDone(s)
          \/ \E wok \in BOOLEAN : SelectMsg(s, wok)
          \/ \E wok \in BOOLEAN : SelectHeartbeat(s, wok)

StreamTopClients(s) ==
    \/ TopOpen(s)
    \/ /\ ss[s].kind = "top"
       /\ \/ \E wok \in BOOLEAN : SendConnected(s, wok)
          \/ SelectDone(s)
          \/ \E wok \in BOOLEAN : SelectPoll(s, wok)
          \/ \E wok \in BOOLEAN : SelectHeartbeat(s, wok)

\* the client goes away: net/http cancels the request's context
Cancel(s) ==
    /\ ss[s].pc \in {"open", "streaming"}
    /\ ~ss[s].cancelled
    /\ ss' = [ss EXCEPT ![s].cancelled = TRUE]
    /\ UNCHANGED notSSE

\* time.NewTicker(30 * time.Second): the channel holds one tick, further ticks
\* are dropped while it is full
HeartbeatTick(s) ==
    /\ ss[s].pc = "streaming"
    /\ ~ss[s].hb
    /\ ss' = [ss EXCEPT ![s].hb = TRUE]
    /\ UNCHANGED notSSE

\* time.NewTicker(60 * time.Second) of StreamTopClients
PollTick(s) ==
    /\ ss[s].pc = "streaming"
    /\ ss[s].kind = "top"
    /\ ~ss[s].poll
    /\ ss' = [ss EXCEPT ![s].poll = TRUE]
    /\ UNCHANGED notSSE

\* a subscription that receives what is published: it is open and has room
PoisonedByFailure(s) ==
    /\ ss[s].sub /\ Len(ss[s].q) < ChanCap
    /\ ~\E t \in Sessions : ss[t].pc = "closed" /\ ss[t].err = "err"
Receiving(s) == ss[s].sub /\ Len(ss[s].q) < ChanCap

\* the channel buffers after a PUBLISH of msg
Deliver(msg) ==
    [s \in Sessions |-> IF Receiving(s) THEN [ss[s] EXCEPT !.q = Append(@, msg)]
                        ELSE ss[s]]

\* PUBLISH on api_logs:updates by another client of the server (any text):
\* every subscription with room receives the payload
PublishMessage(payload) ==
    /\ RedisClient # "nil"
    /\ redisUp
    /\ \E s \in Sessions : Receiving(s)
    /\ ss' = Deliver(Message(payload, 0))
    /\ UNCHANGED notSSE

\* traced publishes in one behaviour
MaxPublished == 2

\* a traced PUBLISH on api_logs:updates, whether or not anybody listens
PublishTraced(payload) ==
    /\ RedisClient # "nil"
    /\ redisUp
    /\ published < MaxPublished
    /\ published' = published + 1
    /\ ss' = Deliver(Message(payload, published + 1))
    /\ UNCHANGED <<conn, now, kv, dbVer, rlVars, usageVars, inv, logVars>>

-----------------------------------------------------------------------------
(* RecordLog and publishLogUpdate: handler/log_handler.go *)

\* the CheckLimit activation and the invalidation goroutine of each writer
CallerOf(w) == IF w = "w1" THEN "p1" ELSE "p2"
InvOf(w) == IF w = "w1" THEN "i1" ELSE "i2"

\* verdict: what CheckLimit answered ("allowed", "rejected"); created: the log
\* row was stored; body: remaining_requests of the 201 response
IdleLog == [pc |-> "idle", client |-> "c1", remaining |-> 0, verdict |-> "none",
            status |-> 0, body |-> 0, created |-> FALSE]

\* result: "sent", "failed" (PUBLISH returned an error) or "skipped" (probe failed);
\* afterFailure: a session had already ended on a failed write when it published
\* sawDown: the store itself did not answer the goroutine
PubOff == [pc |-> "off", ctxLive |-> FALSE, result |-> "none", afterFailure |-> FALSE,
           sawDown |-> FALSE]

\* the handler sends its response and returns; net/http cancels the request's context
Answer(w, status, body) ==
    /\ lg' = [lg EXCEPT ![w].pc = "done", ![w].status = status, ![w].body = body]
    /\ pb' = [pb EXCEPT ![w].ctxLive = FALSE]

\* lines 33-59: FindByAPIKey (401 for an unknown key), then CheckLimit is entered
LogBegin(w, c, known) ==
    /\ lg[w].pc = "idle"
    /\ IF known
       THEN /\ EnterCheckLimit(CallerOf(w), c)
            /\ lg' = [lg EXCEPT ![w] = [IdleLog EXCEPT !.pc = "check", !.client = c]]
            /\ UNCHANGED pb
       ELSE /\ Answer(w, 401, 0)
            /\ UNCHANGED rlVars
    /\ UNCHANGED <<conn, now, kv, dbVer, usageVars, inv, ss, published>>

\* line 64: if !allowed
RejectsNothing(res) == FALSE
Rejects(res) == ~res.allowed

\* lines 59-66: CheckLimit has returned; its error is ignored; 429 when not allowed
LogChecked(w) ==
    /\ lg[w].pc = "check"
    /\ rl[CallerOf(w)].pc = "done"
    /\ rl' = [rl EXCEPT ![CallerOf(w)] = IdleCall]
    /\ LET res == rl[CallerOf(w)].result
           rec == [lg[w] EXCEPT !.verdict = IF res.allowed THEN "allowed" ELSE "rejected"]
       IN  IF Rejects(res)
           THEN /\ lg' = [lg EXCEPT ![w] = [rec EXCEPT !.pc = "done", !.status = 429]]
                /\ pb' = [pb EXCEPT ![w].ctxLive = FALSE]
           ELSE /\ lg' = [lg EXCEPT ![w] = [rec EXCEPT !.pc = "create",
                                                       !.remaining = res.remaining]]
                /\ UNCHANGED pb
    /\ UNCHANGED <<conn, now, kv, dbVer, window, issued, usageVars, inv, ss, published>>

\* lines 77-79: h.logStore.Create(log); 500 when it fails
LogCreate(w, ok) ==
    /\ lg[w].pc = "create"
    /\ IF ok
       THEN /\ dbVer' = dbVer + 1
            /\ lg' = [lg EXCEPT ![w].pc = "spawn", ![w].created = TRUE]
            /\ UNCHANGED pb
       ELSE /\ Answer(w, 500, 0)
            /\ UNCHANGED dbVer
    /\ UNCHANGED <<conn, now, kv, rlVars, usageVars, inv, ss, published>>

\* lines 82-85: go h.invalidateUsageCache(...); go h.publishLogUpdate(ctx, log)
LogSpawn(w) ==
    /\ lg[w].pc = "spawn"
    /\ lg' = [lg EXCEPT ![w].pc = "respond"]
    /\ inv' = [inv EXCEPT ![InvOf(w)] = [IdleInv EXCEPT !.pc = "probe"]]
    /\ pb' = [pb EXCEPT ![w] = [PubOff EXCEPT !.pc = "probe", !.ctxLive = TRUE]]
    /\ UNCHANGED <<conn, now, kv, dbVer, rlVars, usageVars, ss, published>>

\* line 93: utils.CreatedResponse
StatusFromTasks(w) ==
    IF pb[w].result = "failed" \/ inv[InvOf(w)].err = "err" THEN 500 ELSE 201
CreatedStatus(w) == 201

\* lines 87-93: the 201 response carries the remaining requests
LogRespond(w) ==
    /\ lg[w].pc = "respond"
    /\ Answer(w, CreatedStatus(w), lg[w].remaining)
    /\ UNCHANGED <<conn, now, kv, dbVer, rlVars, usageVars, inv, ss, published>>

RecordLog(w) ==
    \/ \E c \in Clients, known \in BOOLEAN : LogBegin(w, c, known)
    \/ LogChecked(w)
    \/ \E ok \in BOOLEAN : LogCreate(w, ok)
    \/ LogSpawn(w)
    \/ LogRespond(w)

\* lines 118-120: if !db.IsRedisAvailable(ctx) { return }; a probe with a
\* cancelled context fails
PubProbe(w) ==
    /\ pb[w].pc = "probe"
    /\ pb' = [pb EXCEPT ![w] =
                IF pb[w].ctxLive /\ IsRedisAvailable THEN [pb[w] EXCEPT !.pc = "publish"]
                ELSE [pb[w] EXCEPT !.pc = "done", !.result = "skipped",
                                   !.sawDown = ~IsRedisAvailable]]
    /\ UNCHANGED <<conn, now, kv, dbVer, rlVars, usageVars, inv, ss, lg, published>>

\* line 128: _ = db.PublishMessage(ctx, "api_logs:updates", message)
PubPublish(w) ==
    /\ pb[w].pc = "publish"
    /\ IF pb[w].ctxLive /\ redisUp
       THEN /\ ss' = Deliver(Message("json", published + 1))
            /\ published' = published + 1
            /\ pb' = [pb EXCEPT ![w].pc = "done", ![w].result = "sent",
                                ![w].afterFailure =
                                    \E s \in Sessions : ss[s].pc = "closed" /\ ss[s].err = "err"]
       ELSE /\ UNCHANGED <<ss, published>>
            /\ pb' = [pb EXCEPT ![w].pc = "done", ![w].result = "failed",
                                ![w].sawDown = ~redisUp]
    /\ UNCHANGED <<conn, now, kv, dbVer, rlVars, usageVars, inv, lg>>

publishLogUpdate(w) ==
    \/ PubProbe(w)
    \/ PubPublish(w)

-----------------------------------------------------------------------------
(* Specifications *)

\* what a server shared with other writers may hold when the program starts:
\* nothing, entries of every kind, or entries that do not decode and are about
\* to expire
SeedKeys == UsageKeys \cup {getRateLimitKey("c1", 0)}
SeedEntry(k, good) ==
    IF k[1] = "rate_limit" THEN Entry(<<"int", 1>>, TRUE, Hour)
    ELSE IF ~good THEN Entry(<<"raw">>, TRUE, 1)
    ELSE IF k = StatsKey THEN Entry(Marshal("object", 0), TRUE, StatsTTL)
    ELSE Entry(Marshal("array", 0), TRUE, cacheTTL)
SeedStores == {<<>>} \cup {[k \in SeedKeys |-> SeedEntry(k, good)] : good \in BOOLEAN}

Start ==
    /\ RedisClient = "nil"
    /\ redisUp \in BOOLEAN
    /\ now = 0
    /\ dbVer = 1
    /\ rl = [p \in Callers |-> IdleCall]
    /\ window = [c \in Clients |-> NewWindow(FormatHour(0), FALSE)]
    /\ issued = 0
    /\ rd = [r \in Readers |-> IdleRead]
    /\ pf = [r \in Readers |-> PfOff]
    /\ inv = [i \in Invalidators |-> IdleInv]
    /\ reads = 0
    /\ ss = [s \in Sessions |-> IdleSession]
    /\ lg = [w \in Writers |-> IdleLog]
    /\ pb = [w \in Writers |-> PubOff]
    /\ fc = NoCall
    /\ published = 0

Init == Start /\ kv = <<>>

InitCache == Start /\ kv \in SeedStores

\* for the live sessions an entry that does not decode is the same as none
InitSSE == Start /\ kv \in {<<>>, [k \in SeedKeys |-> SeedEntry(k, TRUE)]}

\* concurrent checks, without resets
NextRL ==
    \/ InitRedis
    \/ RedisDown
    \/ RedisBack
    \/ TickHalfHour
    \/ \E p \in Callers : CheckLimit(p)

SpecRL == Init /\ [][NextRL]_vars

\* the store when the caller starts: empty, or holding a counter of c1 that
\* overlapping checks have pushed past the maximum and a counter of c2 that
\* stands at the maximum
InitLimiter ==
    /\ Start
    /\ kv \in {<<>>,
                (getRateLimitKey("c1", 0) :>
                    Entry(<<"int", MaxRequestsPerHour + 1>>, TRUE, Hour))
                @@ (getRateLimitKey("c2", 0) :>
                    Entry(<<"int", MaxRequestsPerHour>>, TRUE, Hour))}

\* the rate limiter used by one caller at a time, with resets, reads of the
\* remaining count and crashes of the process
NextLimiter ==
    \/ InitRedis
    \/ RedisDown
    \/ RedisBack
    \/ TickHalfHour
    \/ CheckLimit("p1")
    \/ GetRemainingRequests("p1")
    \/ \E c \in Clients : ResetLimit(c)
    \/ Crash

SpecLimiter == InitLimiter /\ [][NextLimiter]_vars

\* The limiter used by two callers with no ResetLimit, over counters that may
\* already have reached the maximum.
NextBucket ==
    \/ InitRedis
    \/ RedisDown
    \/ RedisBack
    \/ TickHalfHour
    \/ \E p \in Callers : CheckLimit(p)

SpecBucket == InitLimiter /\ [][NextBucket]_vars

NextUsage ==
    \/ InitRedis
    \/ RedisDown
    \/ RedisBack
    \/ \E r \in Readers : UsageRead(r)
    \/ \E r \in Readers : prefetchTopClients(r)

SpecUsage == InitCache /\ [][NextUsage]_vars

NextInv ==
    \/ InitRedis
    \/ RedisDown
    \/ RedisBack
    \/ \E i \in Invalidators : invalidateUsageCache(i)
    \/ GetDailyUsage("r1")

SpecInv == InitCache /\ [][NextInv]_vars

\* the clock advances by one unit while a cache entry written at 0 is alive
TickUnit ==
    /\ now <= cacheTTL
    /\ Advance(1)
    /\ UNCHANGED <<conn, rlVars, notRL>>

\* the cache operations of db/redis.go called directly
NextFacade ==
    \/ InitRedis
    \/ RedisDown
    \/ RedisBack
    \/ \E kind \in Kinds : CacheGetCall(KeyOf(kind, "c1"), ShapeOf(kind))
    \/ \E kind \in Kinds, v \in 1..2 :
          CacheSetCall(KeyOf(kind, "c1"), ShapeOf(kind), v, TTLOf(kind))
    \/ \E kind \in Kinds : CacheDeleteCall(KeyOf(kind, "c1"))

SpecFacade == InitCache /\ [][NextFacade]_vars

\* the kinds whose keys are recorded
TrackedKinds == {kind \in Kinds : KeyOf(kind, "c1") \in Tracked}

\* the cache operations on the recorded keys while their entries age
NextRoundTrip ==
    \/ InitRedis
    \/ RedisDown
    \/ RedisBack
    \/ TickUnit
    \/ \E kind \in TrackedKinds : CacheGetCall(KeyOf(kind, "c1"), ShapeOf(kind))
    \/ \E kind \in TrackedKinds, v \in 1..2 :
          CacheSetCall(KeyOf(kind, "c1"), ShapeOf(kind), v, TTLOf(kind))
    \/ \E kind \in TrackedKinds : CacheDeleteCall(KeyOf(kind, "c1"))

SpecRoundTrip == InitSSE /\ [][NextRoundTrip]_vars

\* GetTopClients alone
GetTopClients(r) ==
    \/ ReadBegin(r, "top", "c1", TRUE)
    \/ ReadSteps(r)

\* reads of the top clients and their prefetchers while entries age
NextPrefetch ==
    \/ InitRedis
    \/ RedisDown
    \/ RedisBack
    \/ TickUnit
    \/ \E r \in Readers : GetTopClients(r)
    \/ \E r \in Readers : prefetchTopClients(r)

SpecPrefetch == InitSSE /\ [][NextPrefetch]_vars

NextSSE ==
    \/ InitRedis
    \/ RedisDown
    \/ RedisBack
    \/ \E s \in Sessions : StreamUsageUpdates(s)
    \/ StreamTopClients("s2")
    \/ \E s \in Sessions : Cancel(s)
    \/ \E s \in Sessions : HeartbeatTick(s)
    \/ \E s \in Sessions : PollTick(s)
    \/ \E payload \in Payloads : PublishMessage(payload)

SpecSSE == InitSSE /\ [][NextSSE]_vars

\* sessions on the updates channel and a bounded number of traced publishes
NextDelivery ==
    \/ InitRedis
    \/ RedisDown
    \/ RedisBack
    \/ \E s \in Sessions : StreamUsageUpdates(s)
    \/ \E s \in Sessions : Cancel(s)
    \/ \E s \in Sessions : HeartbeatTick(s)
    \/ \E payload \in Payloads : PublishTraced(payload)

SpecDelivery == Init /\ [][NextDelivery]_vars

\* the store when a log request arrives: empty, or holding entries of every kind
\* with the counter of c1 at the maximum
InitLog ==
    /\ Start
    /\ kv \in {<<>>,
                KvPut([k \in SeedKeys |-> SeedEntry(k, TRUE)], getRateLimitKey("c1", 0),
                      Entry(<<"int", MaxRequestsPerHour>>, TRUE, Hour))}

\* the write path: one RecordLog with its CheckLimit and its two goroutines
NextLog ==
    \/ InitRedis
    \/ RedisDown
    \/ RedisBack
    \/ RecordLog("w1")
    \/ CheckLimitSteps(CallerOf("w1"))
    \/ InvSteps(InvOf("w1"))
    \/ publishLogUpdate("w1")

SpecLog == InitLog /\ [][NextLog]_vars

\* fan-out: one writer's publish and the sessions that listen; the writer's
\* invalidation goroutine touches neither and is left to SpecLog
NextFanout ==
    \/ InitRedis
    \/ RedisDown
    \/ RedisBack
    \/ RecordLog("w1")
    \/ CheckLimitSteps(CallerOf("w1"))
    \/ publishLogUpdate("w1")
    \/ \E s \in Sessions : StreamUsageUpdates(s)
    \/ \E s \in Sessions : Cancel(s)
    \/ \E s \in Sessions : HeartbeatTick(s)

SpecFanout == Init /\ [][NextFanout]_vars

\* reads and a write side by side: one RecordLog with its CheckLimit and its
\* invalidation goroutine, and GetDailyUsage called by two readers; the writer's
\* publish goroutine touches neither the cache nor the relational store and is
\* left to SpecLog; the store may go away for good
NextCoherence ==
    \/ InitRedis
    \/ RedisDown
    \/ RecordLog("w1")
    \/ CheckLimitSteps(CallerOf("w1"))
    \/ InvSteps(InvOf("w1"))
    \/ \E r \in Readers : GetDailyUsage(r)

SpecCoherence == InitSSE /\ [][NextCoherence]_vars

\* the codec at work: GetDailyUsage over an entry that may not decode, and
\* CacheSet called on its key with values that may not encode
NextCodec ==
    \/ InitRedis
    \/ RedisDown
    \/ RedisBack
    \/ GetDailyUsage("r1")
    \/ \E v \in {Unencodable, 1} :
          CacheSetCall(DailyKey, ShapeOf("daily"), v, TTLOf("daily"))

SpecCodec == InitCache /\ [][NextCodec]_vars

\* GetClientUsage of client c1 and GetUsageStats
ClientOrStats(r) ==
    \/ \E kind \in {"client", "stats"} : ReadBegin(r, kind, "c1", TRUE)
    \/ ReadSteps(r)

\* a write beside reads of the entries it does not invalidate, while entries age
NextFrame ==
    \/ InitRedis
    \/ TickUnit
    \/ RecordLog("w1")
    \/ CheckLimitSteps(CallerOf("w1"))
    \/ InvSteps(InvOf("w1"))
    \/ ClientOrStats("r1")

SpecFrame == InitSSE /\ [][NextFrame]_vars

\* two log requests side by side, up to their responses; the goroutines they
\* start touch no counter and are left to SpecLog
NextWrites ==
    \/ InitRedis
    \/ RedisDown
    \/ RedisBack
    \/ \E w \in Writers : RecordLog(w)
    \/ \E w \in Writers : CheckLimitSteps(CallerOf(w))

SpecWrites == Init /\ [][NextWrites]_vars

\* select chooses at random among the cases that are ready, so the message case
\* is eventually chosen while a message waits in the channel
NextForward ==
    \/ InitRedis
    \/ RedisDown
    \/ RedisBack
    \/ StreamUsageUpdates("s1")
    \/ Cancel("s1")
    \/ HeartbeatTick("s1")
    \/ \E payload \in Payloads : PublishTraced(payload)

SpecForward ==
    /\ Init /\ [][NextForward]_vars
    /\ WF_vars(\E wok \in BOOLEAN : SelectMsg("s1", wok))

\* select chooses at random among the cases that are ready, so a case that
\* stays ready is eventually chosen
SpecSSEFair ==
    /\ SpecSSE
    /\ \A s \in Sessions : WF_vars(\E wok \in BOOLEAN : SelectHeartbeat(s, wok))

-----------------------------------------------------------------------------
(* Properties of the rate limiter *)

RateKeys == {k \in DOMAIN kv : k[1] = "rate_limit"}

\* C1: checks of one client issued one after another in one hour bucket, with the
\* store answering and no reset, are allowed exactly for the first
\* MaxRequestsPerHour of them; the next one is rejected.
C1_FirstMAllowedThenRejected ==
    \A c \in Clients :
        ~window[c].tainted =>
            \A i \in 1..Len(window[c].results) :
                window[c].results[i] = (i <= MaxRequestsPerHour)

C1_Witness ==
    \E c \in Clients :
        /\ ~window[c].tainted
        /\ Len(window[c].results) = MaxRequestsPerHour + 1
        /\ ~window[c].results[MaxRequestsPerHour + 1]

\* C2: however the steps of concurrent checks of one client interleave in one
\* bucket, at most MaxRequestsPerHour of them are allowed and the stored counter
\* never exceeds MaxRequestsPerHour.
C2_AtMostMAllowed ==
    /\ \A c \in Clients : window[c].granted <= MaxRequestsPerHour
    /\ \A k \in RateKeys : kv[k].data[2] <= MaxRequestsPerHour

\* C3: a check that met an unavailable store (no client, failed probe, failed
\* read or failed increment) returns allowed with a nil error, whatever the counter.
C3_FailOpen ==
    \A p \in Callers :
        (rl[p].pc = "done" /\ rl[p].sawDown) =>
            (rl[p].result.allowed /\ rl[p].result.err = "nil")

C3_Witness ==
    \E p \in Callers :
        /\ rl[p].pc = "done" /\ rl[p].sawDown
        /\ Present(rl[p].key)
        /\ kv[rl[p].key].data[2] >= MaxRequestsPerHour

-----------------------------------------------------------------------------
(* Properties of the usage handlers *)

Answered(r) == rd[r].pc = "done" /\ rd[r].resp.status # 404

\* C4: a usage read that met an unavailable store runs its aggregation once and
\* answers with its outcome (the value with 200, or the aggregation's own failure),
\* never from the cache and never with a failure caused by the store.
C4_UnavailableReadsCompute ==
    \A r \in Readers :
        (Answered(r) /\ rd[r].sawDown) =>
            /\ rd[r].computes = 1
            /\ rd[r].resp.source # "cache"
            /\ rd[r].cres = "ok" =>
                   rd[r].resp = [status |-> 200, source |-> "db", val |-> rd[r].val]
            /\ rd[r].cres = "err" => rd[r].resp.status = 500

C4_Witness ==
    \E r \in Readers :
        /\ Answered(r) /\ rd[r].sawDown /\ rd[r].saw = "none"
        /\ rd[r].resp.status = 200
        /\ Present(rd[r].key)
        /\ Decodable(kv[rd[r].key].data, ShapeOf(rd[r].kind))
        /\ kv[rd[r].key].data[3] # rd[r].resp.val

\* the parts of C5 that do not concern the TTL
GetOrCompute(r) ==
    /\ rd[r].saw = "hit" =>
           /\ rd[r].resp.status = 200 /\ rd[r].resp.source = "cache"
           /\ rd[r].computes = 0
           /\ ~rd[r].wrote.done
    /\ (rd[r].saw = "absent" /\ rd[r].cres = "ok") =>
           /\ rd[r].computes = 1
           /\ rd[r].resp = [status |-> 200, source |-> "db", val |-> rd[r].val]
           /\ rd[r].wrote.done /\ rd[r].wrote.val = rd[r].val
    /\ rd[r].cres = "err" =>
           /\ rd[r].resp.status = 500
           /\ ~rd[r].wrote.done

-----------------------------------------------------------------------------
(* Properties of the invalidation *)

HasDailyPrefix(k) == Len(k) >= 2 /\ k[1] = "usage" /\ k[2] = "daily"

\* CacheInvalidatePattern has returned
Finished(i) == inv[i].pc \in {"top", "done"} /\ inv[i].err # "none"

\* a step of CacheInvalidatePattern
PatternStep(i) == inv[i].pc \in {"scan", "del"} /\ inv'[i] # inv[i]

\* C6: CacheInvalidatePattern("usage:daily:*") changes no key outside the prefix,
\* and when it returns nil with no SET under the prefix since it began, no key
\* with the prefix is left.
C6_InvalidateDailyOnly ==
    [][\A i \in Invalidators :
          PatternStep(i) =>
              /\ \A k \in DOMAIN kv :
                     ~HasDailyPrefix(k) => (k \in DOMAIN kv' /\ kv'[k] = kv[k])
              /\ (Finished(i)' /\ inv'[i].err = "nil" /\ ~inv'[i].disturbed) =>
                     \A k \in DOMAIN kv' : ~HasDailyPrefix(k)]_vars

C6_Witness ==
    \E i \in Invalidators :
        /\ Finished(i) /\ inv[i].err = "nil" /\ ~inv[i].disturbed
        /\ inv[i].keys = {DailyKey, Daily30Key}
        /\ {StatsKey, TopKey, ClientKey("c1"), getRateLimitKey("c1", 0)} \subseteq DOMAIN kv
        /\ \A k \in DOMAIN kv : ~HasDailyPrefix(k)

\* C7: when two invalidations have both returned, the store having answered them
\* and nothing having been SET under the prefix meanwhile, both returned nil and
\* no key with the prefix is left.
C7_ConcurrentInvalidate ==
    (\A i \in Invalidators : Finished(i) /\ ~inv[i].sawDown /\ ~inv[i].disturbed) =>
        /\ \A i \in Invalidators : inv[i].err = "nil"
        /\ \A k \in DOMAIN kv : ~HasDailyPrefix(k)

C7_Witness ==
    /\ \A i \in Invalidators :
          Finished(i) /\ ~inv[i].sawDown /\ ~inv[i].disturbed /\ inv[i].overlapped
    /\ inv["i1"].keys \cap inv["i2"].keys # {}

-----------------------------------------------------------------------------
(* Properties of the live sessions *)

\* C8: in both kinds of session the first frame written is "connected"; no
\* other frame comes before it.
C8_ConnectedFirst ==
    \A s \in Sessions :
        /\ ss[s].first \in {"none", "connected"}
        /\ ss[s].last # "none" => ss[s].first = "connected"

C8_Witness ==
    /\ ss["s1"].kind = "usage" /\ ss["s1"].first = "connected" /\ ss["s1"].last = "update"
    /\ ss["s2"].kind = "top" /\ ss["s2"].first = "connected" /\ ss["s2"].last = "top_clients"

\* C9: once a session's context is cancelled, its select loop takes the
\* ctx.Done() case at once: it writes no further frame, runs no other case, and
\* the handler returns nil.
C9_CancelStopsSession ==
    \A s \in Sessions :
        /\ ~ss[s].lateFrame
        /\ ~ss[s].lateCycle
        /\ (ss[s].pc = "closed" /\ ss[s].cancelled /\ ss[s].first = "connected") =>
               ss[s].err = "nil"

\* C10: a tick waiting in heartbeat.C of a streaming session leads to a
\* "heartbeat" frame, unless the session is cancelled or a write fails first.
C10_HeartbeatNotStarved ==
    \A s \in Sessions :
        (ss[s].pc = "streaming" /\ ss[s].hb) ~>
            \/ ~ss[s].hb /\ ss[s].last = "heartbeat"
            \/ ss[s].cancelled
            \/ ss[s].pc = "closed"

\* a tick waits while a message is queued as well
C10_Witness ==
    \E s \in Sessions :
        /\ ss[s].pc = "streaming" /\ ~ss[s].cancelled
        /\ ss[s].hb /\ ss[s].q # <<>> /\ ss[s].last = "update"

\* a step of session s that receives from msgChan
Receives(s) == \E wok \in BOOLEAN : SelectMsg(s, wok)

\* C11: a payload that is not JSON is received without a frame being written,
\* the session stays Streaming and subscribed, and a JSON payload received
\* next is written as an "update" frame (unless that write fails).
C11_MalformedSkipped ==
    [][\A s \in Sessions :
          Receives(s) =>
              /\ Head(ss[s].q).body = "text" =>
                     /\ ss'[s].last = "nothing" /\ ss'[s].first = ss[s].first
                     /\ ss'[s].pc = "streaming" /\ ss'[s].sub
                     /\ ss'[s].err = "none"
              /\ (Head(ss[s].q).body = "json" /\ ss'[s].pc = "streaming") =>
                     ss'[s].last = "update"]_vars

\* a malformed payload has just been dropped and a well-formed one waits
C11_Witness ==
    \E s \in Sessions :
        /\ ss[s].pc = "streaming" /\ ss[s].sub /\ ss[s].last = "nothing"
        /\ ss[s].q = <<Message("json", 0)>>

\* a step in which a write of session s to its transport fails
DeliveryFails(s) == ss[s].pc # "closed" /\ ss'[s].pc = "closed" /\ ss'[s].err = "err"

\* C12: a failed write closes only the session that made it; the other
\* sessions, the writers and the publishers are left as they were, a later
\* PUBLISH still reaches every open subscription with room and succeeds, and the
\* log request that stored its log is answered 201.
C12_FailureIsLocal ==
    [][/\ \A s \in Sessions :
             DeliveryFails(s) =>
                 /\ \A t \in Sessions \ {s} : ss'[t] = ss[t]
                 /\ lg' = lg /\ pb' = pb
       /\ \A w \in Writers :
             (pb[w].pc = "publish" /\ pb'[w].pc = "done") =>
                 /\ (pb[w].ctxLive /\ redisUp) => pb'[w].result = "sent"
                 /\ pb'[w].result = "sent" =>
                        \A t \in Sessions :
                            (ss[t].sub /\ Len(ss[t].q) < ChanCap) =>
                                ss'[t].q = Append(ss[t].q, Message("json", published'))
       /\ \A w \in Writers :
             (lg'[w].pc = "done" /\ lg'[w].created) => lg'[w].status = 201]_vars

\* one session ended on a failed write, then the log's update was published and
\* the other session forwarded it
C12_Witness ==
    \E s \in Sessions, t \in Sessions, w \in Writers :
        /\ ss[s].pc = "closed" /\ ss[s].err = "err"
        /\ pb[w].result = "sent" /\ pb[w].afterFailure
        /\ ss[t].pc = "streaming" /\ ss[t].last = "update"
        /\ lg[w].status = 201

-----------------------------------------------------------------------------
(* Further properties of the rate limiter *)

\* C13: the k-th accepted check of a client in one hour bucket, the checks made
\* one after the other with the store answering, reports remaining = M - k.
C13_RemainingCountsDown ==
    \A c \in Clients : ~window[c].tainted =>
        \A k \in 1..Len(window[c].rems) :
            window[c].results[k] => window[c].rems[k] = MaxRequestsPerHour - k

C13_Witness ==
    \E c \in Clients :
        /\ ~window[c].tainted
        /\ Len(window[c].rems) = MaxRequestsPerHour + 1
        /\ window[c].rems[MaxRequestsPerHour] = 0
        /\ window[c].results[MaxRequestsPerHour]

\* C14: the first check of a client in a later hour bucket, made with the store
\* answering, is allowed with remaining = M - 1, whatever the counter of the
\* earlier bucket holds.
C14_NextBucketFresh ==
    \A c \in Clients :
        (window[c].bucket # FormatHour(0) /\ ~window[c].tainted /\ window[c].results # <<>>) =>
            /\ window[c].results[1]
            /\ window[c].rems[1] = MaxRequestsPerHour - 1

\* the counter of the earlier bucket is still there, at the maximum
C14_Witness ==
    \E c \in Clients :
        /\ window[c].bucket = FormatHour(Hour) /\ ~window[c].tainted
        /\ window[c].results = <<TRUE>>
        /\ Present(<<"rate_limit", c, FormatHour(0)>>)
        /\ kv[<<"rate_limit", c, FormatHour(0)>>].data[2] >= MaxRequestsPerHour

-----------------------------------------------------------------------------
(* Properties of RecordLog *)

Stored == {w \in Writers : lg[w].created}

\* C15: a RecordLog stores its log only after its CheckLimit has returned
\* allowed; one whose CheckLimit returned not allowed answers 429, stores no
\* log, and starts neither the invalidation nor the publish.
C15_RejectedDoesNothing ==
    /\ dbVer = 1 + Cardinality(Stored)
    /\ \A w \in Writers :
          /\ lg[w].created => (lg[w].verdict = "allowed" /\ rl[CallerOf(w)].pc = "idle")
          /\ lg[w].verdict = "rejected" =>
                 /\ lg[w].pc = "done" /\ lg[w].status = 429
                 /\ ~lg[w].created
                 /\ inv[InvOf(w)].pc = "idle"
                 /\ pb[w].pc = "off"

C15_Witness ==
    \E w \in Writers :
        /\ lg[w].status = 429 /\ lg[w].verdict = "rejected"
        /\ CounterValue(getRateLimitKey(lg[w].client, now)) = MaxRequestsPerHour
        /\ dbVer = 1

\* C16: a check that was allowed because the store did not answer (failed
\* probe, failed counter read or failed increment) reports remaining = M.
C16_FailOpenReportsMax ==
    \A p \in Callers :
        (rl[p].pc = "done" /\ rl[p].sawDown /\ rl[p].result.allowed) =>
            rl[p].result.remaining = MaxRequestsPerHour

-----------------------------------------------------------------------------
(* Properties of the cache operations *)

\* C17 as stated: with the store down CacheGet reports a miss, and CacheSet and
\* CacheDelete change nothing and return no error.
C17_Original ==
    fc.down =>
        /\ fc.op = "get" => fc.err # "nil"
        /\ fc.op \in {"set", "del"} => (~fc.changed /\ fc.err = "nil")

\* C17 as amended: with the store down CacheGet returns an error (a miss to its
\* callers), and CacheSet and CacheDelete change nothing and return an error.
C17_DownReturnsError ==
    (fc.down /\ fc.op # "none") => (~fc.changed /\ fc.err \notin {"nil", "redis.Nil"})

C17_Witness ==
    /\ fc.op = "set" /\ fc.down /\ fc.err = "unavailable"
    /\ Present(fc.key) /\ kv[fc.key] = SeedEntry(fc.key, TRUE)

-----------------------------------------------------------------------------
(* Further properties of the live sessions *)

\* a step that enters StreamUsageUpdates
OpensUsage(s) == ss[s].pc = "idle" /\ ss'[s].pc # "idle" /\ ss'[s].kind = "usage"

\* C18 as stated: with the store unavailable a session on the updates channel
\* still opens (to send "connected" and heartbeats); the request is not failed.
C18_Original ==
    [][\A s \in Sessions :
          (OpensUsage(s) /\ ~IsRedisAvailable) =>
              (ss'[s].pc = "open" /\ ss'[s].status # 503)]_vars

\* C18 as amended: with the store unavailable StreamUsageUpdates answers 503
\* without subscribing and without writing a frame; with the store available
\* it subscribes and goes on to the "connected" frame.
C18_UnavailableRefused ==
    [][\A s \in Sessions :
          OpensUsage(s) =>
              IF IsRedisAvailable
              THEN ss'[s].pc = "open" /\ ss'[s].sub /\ ss'[s].status = 0
              ELSE /\ ss'[s].pc = "closed" /\ ss'[s].status = 503
                   /\ ~ss'[s].sub /\ ss'[s].first = "none" /\ ss'[s].last = "none"]_vars

C18_Witness ==
    \E s \in Sessions :
        /\ ss[s].kind = "usage" /\ ss[s].pc = "closed" /\ ss[s].status = 503
        /\ ss[s].first = "none" /\ ~IsRedisAvailable

-----------------------------------------------------------------------------
(* Further properties of RecordLog *)

\* a step of one of the goroutines RecordLog(w) started
TaskStep(w) ==
    \/ pb[w].pc \in {"probe", "publish"} /\ pb'[w].pc # pb[w].pc
    \/ inv[InvOf(w)].pc # "idle" /\ inv'[InvOf(w)] # inv[InvOf(w)]

\* C19: a RecordLog that stored its log answers 201 with the remaining count
\* CheckLimit gave it, whatever its two goroutines did or will do; no step of
\* the goroutines touches the handler, the answer never changes afterwards, and
\* a goroutine that has ended does not run again.
C19_DetachedTasks ==
    [][\A w \in Writers :
          /\ (lg'[w].pc = "done" /\ lg'[w].created) =>
                 (lg'[w].status = 201 /\ lg'[w].body = lg'[w].remaining)
          /\ TaskStep(w) => lg' = lg
          /\ lg[w].pc = "done" => lg'[w] = lg[w]
          /\ pb[w].pc = "done" => (pb'[w].pc = "done" /\ pb'[w].result = pb[w].result)
          /\ inv[InvOf(w)].pc = "done" => inv'[InvOf(w)].pc = "done"]_vars

\* answered 201 while the invalidation has not started and the publish has failed
C19_Witness ==
    \E w \in Writers :
        /\ lg[w].pc = "done" /\ lg[w].status = 201
        /\ inv[InvOf(w)].pc = "probe"
        /\ pb[w].pc = "done" /\ pb[w].result = "failed"

\* C20: once the goroutines of a RecordLog that stored its log have ended, the
\* store having answered them, the usage:daily:* and usage:top:24h entries are
\* gone and the log's update has been published, whenever the handler returned.
C20_TasksTakeEffect ==
    \A w \in Writers :
        /\ (lg[w].created /\ pb[w].pc = "done" /\ ~pb[w].sawDown) => pb[w].result = "sent"
        /\ (lg[w].created /\ inv[InvOf(w)].pc = "done" /\ ~inv[InvOf(w)].sawDown) =>
               /\ \A k \in DOMAIN kv : ~HasDailyPrefix(k)
               /\ ~Present(TopKey)

-----------------------------------------------------------------------------
(* Properties of the prefetch refresher *)

\* a step of the prefetchTopClients goroutine that reader r started
PrefetchStep(r) == pf[r].pc # "off" /\ pf'[r].pc # pf[r].pc

\* C21: no step of prefetchTopClients touches the handler that started it, whose
\* answer on the miss path is the aggregation it computed itself (or 500); and a
\* prefetcher whose own aggregation fails ends there without writing, so the
\* keyspace, with the entry of usage:top:24h and its expiry, stays as it was.
C21_FailedRefreshWritesNothing ==
    [][\A r \in Readers :
          /\ PrefetchStep(r) => rd' = rd
          /\ (PrefetchStep(r) /\ (pf[r].cres = "err" \/ pf'[r].cres = "err")) =>
                 (kv' = kv /\ pf'[r].pc = "off")
          /\ (rd'[r].pc = "done" /\ rd'[r].kind = "top" /\ rd'[r].saw # "hit"
                 /\ rd'[r].resp.status # 500) =>
                 rd'[r].resp = [status |-> 200, source |-> "db", val |-> rd'[r].val]]_vars

\* the aggregation of a prefetcher failed while a decodable entry close to its
\* expiry was cached
C21_Witness ==
    \E r \in Readers :
        /\ pf[r].cres = "err"
        /\ CacheGetOk(TopKey, "array")
        /\ NearExpiry(TTL(TopKey))

-----------------------------------------------------------------------------
(* Round trip through the cache operations *)

-----------------------------------------------------------------------------
(* Delivery of published messages to sessions *)

\* C23: the "update" frames of a session are those of distinct messages, each
\* published after the session subscribed; a session that has closed writes no
\* further frame.
C23_DeliveredOnceWhileSubscribed ==
    [][\A s \in Sessions :
          LET f == ss'[s].frames
          IN  /\ \A i \in 1..Len(f) : f[i] > ss'[s].subAt /\ f[i] <= published'
              /\ \A i, j \in 1..Len(f) : f[i] = f[j] => i = j
              /\ ss[s].pc = "closed" => ss'[s] = ss[s]]_vars

\* one session forwarded both messages; the other subscribed after the first
\* publish, forwarded the second only, and has closed
C23_Witness ==
    \E s, t \in Sessions :
        /\ ss[s].subAt = 0 /\ ss[s].frames = <<1, 2>>
        /\ ss[t].subAt = 1 /\ ss[t].frames = <<2>> /\ ss[t].pc = "closed"

-----------------------------------------------------------------------------
(* Further properties of the rate limiter *)

\* the step in which the CheckLimit of caller p returns
Returns(p) == rl[p].pc \notin {"idle", "done"} /\ rl'[p].pc = "done"

\* C24: ResetLimit(c) removes the counter of c's current hour bucket and leaves
\* every other key as it was; the next CheckLimit of c in that bucket, run with
\* the store answering, returns allowed with MaxRequestsPerHour - 1 remaining and
\* leaves the counter at 1 with an expiry one hour ahead.
C24_ResetStartsAfresh ==
    [][/\ \A c \in Clients :
             ResetLimit(c) =>
                 /\ ~(getRateLimitKey(c, now) \in DOMAIN kv')
                 /\ DOMAIN kv' = DOMAIN kv \ {getRateLimitKey(c, now)}
                 /\ \A k \in DOMAIN kv' : kv'[k] = kv[k]
       /\ \A p \in Callers :
             (Returns(p) /\ rl'[p].afterReset /\ ~rl'[p].sawDown /\ redisUp) =>
                 /\ rl'[p].result = Result(TRUE, MaxRequestsPerHour - 1)
                 /\ rl[p].key \in DOMAIN kv'
                 /\ kv'[rl[p].key] = Entry(<<"int", 1>>, TRUE, now + Hour)]_vars

\* the first check after a reset has returned, and the other client's counter
\* is still there
C24_Witness ==
    \E p \in Callers :
        /\ rl[p].pc = "done" /\ rl[p].afterReset /\ ~rl[p].sawDown
        /\ rl[p].result = Result(TRUE, MaxRequestsPerHour - 1)
        /\ \E d \in Clients \ {rl[p].client} : Present(getRateLimitKey(d, now))

\* a step of GetRemainingRequests run by caller p
RemStep(p) == rl'[p].op = "remaining" /\ rl'[p] # rl[p]

\* C25: no step of GetRemainingRequests changes the keyspace; it returns
\* MaxRequestsPerHour when the probe fails or the read fails, and otherwise
\* MaxRequestsPerHour minus the counter of the key (0 for an absent key),
\* floored at 0.
C25_GetRemainingReadOnly ==
    [][\A p \in Callers :
          RemStep(p) =>
              /\ kv' = kv
              /\ (rl[p].pc = "rping" /\ rl'[p].pc = "done") =>
                     (~IsRedisAvailable /\ rl'[p].result.remaining = MaxRequestsPerHour)
              /\ (rl[p].pc = "rget" /\ ~redisUp) =>
                     rl'[p].result.remaining = MaxRequestsPerHour
              /\ (rl[p].pc = "rget" /\ redisUp) =>
                     LET left == MaxRequestsPerHour - CounterValue(rl[p].key)
                     IN  rl'[p].result.remaining = IF left < 0 THEN 0 ELSE left]_vars

\* the read failed after a successful probe while the counter stood at the maximum
C25_Witness ==
    \E p \in Callers :
        /\ rl[p].op = "remaining" /\ rl[p].pc = "done" /\ rl[p].sawDown
        /\ RedisClient # "nil"
        /\ CounterValue(rl[p].key) = MaxRequestsPerHour
        /\ rl[p].result.remaining = MaxRequestsPerHour

\* the time at which key k of store expires, -1 when it has no expiry or is absent
ExpiryOf(store, k) == IF k \in DOMAIN store /\ store[k].hasExp THEN store[k].exp ELSE 0 - 1

\* C26: the expiry of a counter changes in one kind of step only: the Expire of
\* the check whose increment created the counter, on a counter that had no
\* expiry yet; every other step of every check leaves each counter's expiry as
\* it was.
C26_ExpirySetOnce ==
    [][\A k \in DOMAIN kv' :
          (k[1] = "rate_limit" /\ ExpiryOf(kv', k) # ExpiryOf(kv, k)) =>
              /\ ExpiryOf(kv, k) = 0 - 1
              /\ k \in DOMAIN kv /\ kv'[k].data = kv[k].data
              /\ \E p \in Callers :
                     rl[p].pc = "expire" /\ rl[p].key = k /\ rl'[p].pc = "done"]_vars

\* a rejected check returned half an hour after the first one, and the counter
\* still expires one hour after the first
C26_Witness ==
    \E p \in Callers :
        /\ rl[p].pc = "done" /\ ~rl[p].result.allowed /\ ~rl[p].sawDown
        /\ now = HalfHour
        /\ ExpiryOf(kv, rl[p].key) = Hour

\* the end of the hour bucket that counter key k names
BucketEnd(k) ==
    CHOOSE end \in {(h + 1) * Hour : h \in 0..MaxHours} :
        \E c \in Clients : k = getRateLimitKey(c, end - Hour)

Orphan(k) ==
    /\ k \in RateKeys
    /\ ~kv[k].hasExp
    /\ ~\E p \in Callers : rl[p].pc = "expire" /\ rl[p].key = k

\* C28: a check whose increment created the counter and that is lost before its
\* Expire, or whose Expire is not answered, leaves the counter without expiry;
\* from then on no step of any check gives that counter an expiry, for as long
\* as the key exists.
C28_NoExpiryAfterFailure ==
    [][/\ \A p \in Callers :
             (/\ rl[p].pc = "expire" /\ rl'[p].pc # "expire"
              /\ rl[p].key \in DOMAIN kv
              /\ ~redisUp \/ rl'[p].pc = "idle") =>
                 (rl[p].key \in DOMAIN kv' /\ ~kv'[rl[p].key].hasExp)
       /\ \A k \in DOMAIN kv :
             (Orphan(k) /\ k \in DOMAIN kv') =>
                 (~kv'[k].hasExp /\ ~\E p \in Callers : rl'[p].pc = "expire" /\ rl'[p].key = k)]_vars

\* a later check has counted on a counter left without expiry, and it still has none
C28_Witness ==
    \E k \in DOMAIN kv :
        /\ Orphan(k) /\ kv[k].data[2] = MaxRequestsPerHour
        /\ \E p \in Callers : rl[p].pc = "done" /\ rl[p].key = k /\ ~rl[p].sawDown
                                /\ rl[p].op = "check" /\ rl[p].result.allowed

\* C29 as stated: every check that returns on a counter left without expiry,
\* the store having answered it, is allowed.
C29_Original ==
    \A p \in Callers :
        (rl[p].pc = "done" /\ rl[p].op = "check" /\ ~rl[p].sawDown /\ Orphan(rl[p].key)) =>
            rl[p].result.allowed

\* C29: a counter left without expiry still limits its client: it never
\* exceeds MaxRequestsPerHour, a check that reads it at the maximum is rejected,
\* and only ResetLimit removes the key.
C29_OrphanStillLimits ==
    [][\A k \in DOMAIN kv :
          Orphan(k) =>
              /\ kv[k].data[2] <= MaxRequestsPerHour
              /\ ~(k \in DOMAIN kv') => \E c \in Clients : ResetLimit(c)
              /\ \A p \in Callers :
                     (/\ rl[p].pc = "get" /\ rl[p].key = k /\ redisUp
                      /\ kv[k].data[2] >= MaxRequestsPerHour
                      /\ rl'[p].pc \notin {"get", "idle"}) =>
                         (rl'[p].pc = "done" /\ ~rl'[p].result.allowed)]_vars

\* a check on a counter left without expiry was rejected at the maximum
C29_Witness ==
    \E p \in Callers :
        /\ rl[p].pc = "done" /\ rl[p].op = "check" /\ ~rl[p].sawDown
        /\ Orphan(rl[p].key)
        /\ kv[rl[p].key].data[2] = MaxRequestsPerHour
        /\ ~rl[p].result.allowed

\* C30: a check that reads its counter at MaxRequestsPerHour returns
\* (false, 0) and changes neither a counter nor an expiry; checks of one client
\* made one after another in a bucket stay rejected once one was rejected.
C30_RejectedLeavesCounter ==
    [][/\ \A p \in Callers :
             (/\ rl[p].pc = "get" /\ rl[p].op = "check" /\ redisUp
              /\ CounterValue(rl[p].key) = MaxRequestsPerHour
              /\ rl'[p].pc \notin {"get", "idle"}) =>
                 /\ rl'[p].pc = "done"
                 /\ rl'[p].result = Result(FALSE, 0)
                 /\ kv' = kv
       /\ \A c \in Clients :
             LET w == window'[c]
             IN  ~w.tainted =>
                     \A i, j \in 1..Len(w.results) :
                         (i < j /\ ~w.results[i]) => (~w.results[j] /\ w.rems[j] = 0)]_vars

\* two checks in a row were rejected on a counter that stands at the maximum
\* with the expiry it had
C30_Witness ==
    \E c \in Clients :
        /\ ~window[c].tainted /\ window[c].results = <<FALSE, FALSE>>
        /\ window[c].rems = <<0, 0>>
        /\ kv[getRateLimitKey(c, 0)] = Entry(<<"int", MaxRequestsPerHour>>, TRUE, Hour)

-----------------------------------------------------------------------------
(* Properties of the read path under concurrency *)

\* C31: a read of usage:top:24h answered from the cache while the entry's
\* remaining TTL is positive and below five minutes starts the refresher; and
\* the refresher recomputes only when it reads such a TTL, rewriting the entry
\* with the full TTL.
C31_HotReadRefreshes ==
    [][\A r \in Readers :
          /\ (/\ rd[r].pc = "get" /\ rd[r].kind = "top"
              /\ rd'[r].pc = "done" /\ rd'[r].saw = "hit"
              /\ NearExpiry(TTL(TopKey))) =>
                 pf'[r].pc = "probe"
          /\ (pf[r].pc = "ttl" /\ pf'[r].pc = "compute") => NearExpiry(TTL(TopKey))
          /\ (pf[r].pc = "set" /\ pf'[r].pc = "off" /\ kv' # kv) =>
                 kv'[TopKey] = Entry(Marshal("array", pf[r].val), TRUE, now + cacheTTL)]_vars

\* C32: nothing holds a reader back while another one recomputes the same key,
\* and a write-through overwrites whatever the key holds: the reader answers
\* 200 with its own aggregate, and with the store answering the key then holds
\* that aggregate with a full TTL, so after overlapping reads the key holds the
\* value of the write-through that ran last.
C32_LastWriterWins ==
    [][\A r \in Readers :
          (rd[r].pc = "set" /\ rd'[r].pc = "done") =>
              /\ rd'[r].resp = [status |-> 200, source |-> "db", val |-> rd[r].val]
              /\ IF redisUp
                 THEN kv'[rd[r].key] = Entry(Marshal(ShapeOf(rd[r].kind), rd[r].val), TRUE,
                                             now + TTLOf(rd[r].kind))
                 ELSE kv' = kv]_vars

\* two reads of one key missed and computed different aggregates; both
\* answered 200, and the key holds the older aggregate because its write-through
\* ran last
C32_Witness ==
    \E r, q \in Readers :
        /\ rd[r].pc = "done" /\ rd[q].pc = "done" /\ rd[r].key = rd[q].key
        /\ rd[r].wrote.done /\ rd[q].wrote.done
        /\ rd[r].wrote.val < rd[q].wrote.val
        /\ rd[r].resp.status = 200 /\ rd[q].resp.status = 200
        /\ Present(rd[r].key)
        /\ kv[rd[r].key].data = Marshal("array", rd[r].wrote.val)

-----------------------------------------------------------------------------
(* Properties of the session life cycle *)

\* C33: a session on the updates channel goes from connecting ("open") to
\* streaming to closed and nowhere else; a closed session never changes again;
\* it closes without error through the cancellation case and with the write
\* error when a frame, the "connected" frame included, cannot be written; and
\* it holds its subscription exactly while it is connecting or streaming.
C33_SessionLifeCycle ==
    [][\A s \in Sessions :
          (ss[s].kind = "usage" /\ ss'[s].kind = "usage") =>
              /\ \/ ss'[s].pc = ss[s].pc
                 \/ <<ss[s].pc, ss'[s].pc>> \in
                        {<<"idle", "open">>, <<"open", "streaming">>,
                         <<"open", "closed">>, <<"streaming", "closed">>}
                 \/ ss[s].pc = "idle" /\ ss'[s].pc = "closed" /\ ss'[s].status = 503
              /\ ss[s].pc = "closed" => ss'[s] = ss[s]
              /\ ss'[s].sub = (ss'[s].pc \in {"open", "streaming"})
              /\ (ss[s].pc = "open" /\ ss'[s].pc = "closed") =>
                     (ss'[s].err = "err" /\ ss'[s].first = "none")
              /\ (ss[s].pc = "streaming" /\ ss'[s].pc = "closed") =>
                     \/ ss'[s].err = "nil" /\ ss[s].cancelled
                     \/ ss'[s].err = "err" /\ (ss[s].q # <<>> \/ ss[s].hb)]_vars

\* one session ended on a "connected" frame that could not be written, another
\* was cancelled while streaming and ended without error; neither is subscribed
C33_Witness ==
    \E s, t \in Sessions :
        /\ ss[s].kind = "usage" /\ ss[s].pc = "closed" /\ ss[s].err = "err"
        /\ ss[s].first = "none" /\ ~ss[s].sub
        /\ ss[t].kind = "usage" /\ ss[t].pc = "closed" /\ ss[t].err = "nil"
        /\ ss[t].first = "connected" /\ ss[t].cancelled /\ ~ss[t].sub

\* C34: every poll tick a streaming, uncancelled StreamTopClients session takes
\* and survives writes one frame: "top_clients" when usage:top:24h can be read
\* from the cache, "refreshing" otherwise, an unavailable store included.
C34_PollWritesOneFrame ==
    [][\A s \in Sessions :
          (/\ ss[s].kind = "top" /\ ss[s].pc = "streaming" /\ ss'[s].pc = "streaming"
           /\ ss[s].poll /\ ~ss'[s].poll /\ ~ss[s].cancelled) =>
              ss'[s].last = IF CacheGetOk(TopKey, "array") THEN "top_clients"
                            ELSE "refreshing"]_vars

-----------------------------------------------------------------------------
(* Properties of the codec *)

\* C35: a read that finds an entry it cannot decode goes on to the aggregation
\* as on a miss, answers 200 with the aggregate and, the store answering,
\* overwrites the entry with it; CacheSet of a value that cannot be encoded
\* returns the encoder's error and leaves the keyspace alone, and nothing
\* writes that value later: the key changes only through a write-through or a
\* CacheSet that returned nil.
C35_CodecFailures ==
    [][/\ \A r \in Readers :
             /\ (/\ rd[r].pc = "get" /\ rd'[r].pc # "get" /\ IsRedisAvailable
                 /\ Present(rd[r].key)
                 /\ ~Decodable(kv[rd[r].key].data, ShapeOf(rd[r].kind))) =>
                    (rd'[r].pc = "compute" /\ rd'[r].saw = "undecodable")
             /\ (rd[r].pc = "set" /\ rd'[r].pc = "done") =>
                    /\ rd'[r].resp = [status |-> 200, source |-> "db", val |-> rd[r].val]
                    /\ redisUp =>
                          kv'[rd[r].key].data = Marshal(ShapeOf(rd[r].kind), rd[r].val)
       /\ (fc' # fc /\ fc'.op = "set" /\ fc'.val = Unencodable /\ RedisClient # "nil") =>
               (fc'.err = "marshal" /\ kv' = kv)
       /\ kv' # kv =>
               \/ \E r \in Readers : rd[r].pc = "set" /\ rd'[r].pc = "done"
               \/ fc'.op = "set" /\ fc'.err = "nil" /\ fc'.val # Unencodable]_vars

\* a read has replaced an entry it could not decode by its aggregate, and a
\* later CacheSet of a value that does not encode has left that entry in place
C35_Witness ==
    \E r \in Readers :
        /\ rd[r].pc = "done" /\ rd[r].saw = "undecodable" /\ rd[r].wrote.done
        /\ rd[r].resp = [status |-> 200, source |-> "db", val |-> rd[r].val]
        /\ fc.op = "set" /\ fc.val = Unencodable /\ fc.err = "marshal" /\ ~fc.changed
        /\ Present(rd[r].key)
        /\ kv[rd[r].key].data = Marshal("array", rd[r].wrote.val)

-----------------------------------------------------------------------------
(* Properties of reads beside a write *)

\* usage:daily:7days holds an aggregate older than the relational store
StaleDaily ==
    /\ Present(DailyKey)
    /\ Decodable(kv[DailyKey].data, "array")
    /\ kv[DailyKey].data[3] < dbVer

\* the invalidation the writer started has ended and the store answered each
\* of its commands
Invalidated(w) == inv[InvOf(w)].pc = "done" /\ ~inv[InvOf(w)].sawDown

\* C36 as stated: once the invalidation of the stored log has ended and no
\* read is in flight, usage:daily:7days, if present, holds an aggregate
\* computed after the log was stored.
C36_Original ==
    (/\ lg["w1"].created /\ Invalidated("w1")
     /\ \A r \in Readers : rd[r].pc \in {"idle", "done"}) =>
        ~StaleDaily

\* C36: an aggregate is never older than the relational store was when its
\* read began, so a read that begins after the log was stored caches an
\* aggregate computed after it; and when the invalidation of the stored log has
\* ended, an older aggregate is in the cache only if a write-through ran
\* after the invalidation had passed its probe.
C36_StaleOnlyFromOverlap ==
    /\ \A r \in Readers :
          (rd[r].pc \in {"probe2", "set", "done"} /\ rd[r].cres = "ok") =>
              rd[r].val >= rd[r].born
    /\ \A r \in Readers : rd[r].wrote.done => rd[r].wrote.val >= rd[r].born
    /\ (lg["w1"].created /\ Invalidated("w1") /\ StaleDaily) =>
           inv[InvOf("w1")].disturbed

\* a read computed its aggregate before the log was stored and wrote it through
\* after the invalidation: every read has returned, the invalidation has ended
\* without error, and the cache holds the aggregate that lacks the log
C36_Witness ==
    /\ lg["w1"].created /\ Invalidated("w1") /\ inv[InvOf("w1")].err = "nil"
    /\ \A r \in Readers : rd[r].pc \in {"idle", "done"}
    /\ StaleDaily
    /\ \E r \in Readers : rd[r].wrote.done /\ rd[r].wrote.val = kv[DailyKey].data[3]
                             /\ rd[r].born < dbVer

\* the entries no write invalidates
KeptKeys == {ClientKey(c) : c \in Clients} \cup {StatsKey}

-----------------------------------------------------------------------------
(* Properties of the counter beside the log store *)

\* the checks on key that have incremented the counter and not yet returned
PastIncrement(key) == {p \in Callers : rl[p].key = key /\ rl[p].pc = "expire"}

\* C38: in the current bucket of every client the counter equals the number of
\* checks that returned allowed after their increment, plus the checks that
\* have incremented and not yet returned; a log creation that fails changes no
\* key, so the increment of its check stays.
C38_CounterCountsAccepted ==
    [][/\ \A c \in Clients :
             window'[c].bucket = FormatHour(now') =>
                 CounterValue(getRateLimitKey(c, now))' =
                     window'[c].granted + Cardinality(PastIncrement(getRateLimitKey(c, now)))'
       /\ \A w \in Writers :
             (lg[w].pc = "create" /\ lg'[w].pc = "done") =>
                 (lg'[w].status = 500 /\ kv' = kv /\ dbVer' = dbVer)]_vars

\* two requests of one client were allowed and counted, and the creation of
\* one of the logs failed: the counter stands at 2 with one log stored
C38_Witness ==
    \E c \in Clients, w \in Writers :
        /\ CounterValue(getRateLimitKey(c, now)) = 2
        /\ window[c].granted = 2
        /\ PastIncrement(getRateLimitKey(c, now)) = {}
        /\ lg[w].client = c /\ lg[w].verdict = "allowed" /\ lg[w].status = 500
        /\ dbVer = 2

-----------------------------------------------------------------------------
(* Properties of the counter's life *)

\* C39 as stated: once a check of a client was rejected in a bucket, every
\* check of that client entered afterwards that returns in the bucket is
\* rejected.
C39_Original ==
    [][\A p \in Callers :
          (/\ rl[p].op = "check" /\ rl[p].pc \notin {"idle", "done"} /\ rl'[p].pc = "done"
           /\ rl[p].afterRejection
           /\ rl[p].bucket = FormatHour(now)) =>
              ~rl'[p].result.allowed]_vars

\* C39: the expiry a check sets is never before the end of the bucket its key
\* names, so while the bucket lasts the counter stays and never decreases, and
\* once a check of the client was rejected in the bucket every check that
\* reads the counter in the bucket, the store answering, is rejected.
C39_RejectedStaysRejected ==
    [][/\ \A k \in DOMAIN kv' :
             (k[1] = "rate_limit" /\ ExpiryOf(kv', k) # ExpiryOf(kv, k)) =>
                 ExpiryOf(kv', k) >= BucketEnd(k)
       /\ \A k \in RateKeys :
             now' < BucketEnd(k) =>
                 (k \in DOMAIN kv' /\ kv'[k].data[2] >= kv[k].data[2])
       /\ \A p \in Callers :
             (/\ rl[p].op = "check" /\ rl[p].pc \notin {"idle", "done"} /\ rl'[p].pc = "done"
              /\ rl[p].afterRejection
              /\ rl[p].bucket = FormatHour(now)) =>
                 \/ rl'[p].result = Result(FALSE, 0) /\ ~rl'[p].sawDown
                 \/ rl'[p].result.allowed /\ rl'[p].sawDown /\ rl[p].pc \in {"ping", "get"}]_vars

\* half an hour after a client's first rejection in a bucket, with the counter
\* still in place, another check of the client was rejected
C39_Witness ==
    \E p \in Callers :
        /\ rl[p].pc = "done" /\ rl[p].op = "check" /\ ~rl[p].sawDown
        /\ ~rl[p].result.allowed /\ rl[p].afterRejection
        /\ now = HalfHour /\ rl[p].bucket = FormatHour(now)
        /\ kv[rl[p].key].hasExp /\ kv[rl[p].key].exp = Hour

-----------------------------------------------------------------------------
(* Properties of forwarding *)

====
